---------------------------- MODULE Spec2Model ----------------------------
(***************************************************************************)
(* product_matcher: the Elasticsearch service of the product catalogue     *)
(* (src/src/services/elasticsearch_service.py) and the search endpoints    *)
(* (src/src/api/v1/endpoints/search.py).                                   *)
(*                                                                         *)
(* Python values are records [t, a, n, m, kids]:                           *)
(*   t     the type: "str", "oid" (bson ObjectId), "int", "null" (None),   *)
(*         "list", "dict", and "raise" for a raised exception;             *)
(*   a     the text of a scalar (what str() prints);                       *)
(*   n     the number of characters of that text that the value holds      *)
(*         (a string is a prefix of its text);                             *)
(*   m     TRUE when the truncation marker "..." follows the prefix;       *)
(*   kids  the items of a list or dict, in order, as records [k, v]        *)
(*         (k is the key of a dict item and "" for a list item).           *)
(***************************************************************************)
EXTENDS Integers, Sequences, FiniteSets, TLC

VARIABLES
    es,                   \* self.es: "none" or "client"
    engineUp,             \* the environment: does the engine answer a ping
    connection_attempts,  \* self.connection_attempts
    exists,               \* the engine: does the index exist
    index,                \* the engine's index: entries [id, src] in ranking order
    autoIds,              \* number of ids the engine has generated itself
    last                  \* the last operation: its input, engine calls, result

vars == <<es, engineUp, connection_attempts, exists, index, autoIds, last>>

-----------------------------------------------------------------------------
(* Program constants *)

\* len(value) > 10000, value[:10000]
StrCap == 10000

\* len(attr_value_str) > 1000, attr_value_str[:1000]
AttrCap == 1000

\* value[:1000]
ListCap == 1000

\* len("...")
MarkerLen == 3

\* actions[:10], len(actions) - 10
FallbackSample == 10

\* max_retries = 5 if retry else 1
MaxRetries == 5

-----------------------------------------------------------------------------
(* Bounds of the model *)

\* connection_attempts is not counted beyond this
MaxAttempts == 7

\* ids the engine generates for documents that come without one
MaxAutoIds == 2

\* documents of a batch in the batch specification
MaxBatch == 11

-----------------------------------------------------------------------------
(* Python values *)

Scalar(t, a, n) == [t |-> t, a |-> a, n |-> n, m |-> FALSE, kids |-> <<>>]

Str(a, n) == Scalar("str", a, n)

Oid(a) == Scalar("oid", a, 24)

PyInt(a) == Scalar("int", a, 1)

None == Scalar("null", "None", 4)

Raised == Scalar("raise", "", 0)

\* a value whose inspection raises (a str whose len() raises)
Hostile == Scalar("hostile", "", 0)

KV(k, v) == [k |-> k, v |-> v]

Dict(pairs) == [t |-> "dict", a |-> "", n |-> 0, m |-> FALSE, kids |-> pairs]

List(items) ==
    [t |-> "list", a |-> "", n |-> 0, m |-> FALSE,
     kids |-> [i \in 1..Len(items) |-> KV("", items[i])]]

Min(x, y) == IF x < y THEN x ELSE y

\* len(s) of a string
PyLen(s) == s.n + (IF s.m THEN MarkerLen ELSE 0)

\* s[:cap] + "..."
Truncate(s, cap) == [s EXCEPT !.n = Min(s.n, cap), !.m = TRUE]

\* str(v)
PyStr(v) ==
    IF v.t = "str" THEN v
    ELSE IF v.t \in {"list", "dict"} THEN Str("repr", 2)
    ELSE [v EXCEPT !.t = "str", !.m = FALSE]

\* bool(v)
Truthy(v) ==
    CASE v.t = "null" -> FALSE
      [] v.t = "str" -> PyLen(v) > 0
      [] v.t = "int" -> v.a # "0"
      [] v.t \in {"list", "dict"} -> Len(v.kids) > 0
      [] OTHER -> TRUE

\* key in d
HasKey(d, key) == \E i \in 1..Len(d.kids) : d.kids[i].k = key

\* d.get(key): None when the key is absent
Get(d, key) ==
    IF HasKey(d, key)
    THEN d.kids[CHOOSE i \in 1..Len(d.kids) : d.kids[i].k = key].v
    ELSE None

\* d[key] = v: in place for a key the dict has, at the end otherwise
SetKey(d, key, v) ==
    IF HasKey(d, key)
    THEN [d EXCEPT !.kids = [i \in 1..Len(d.kids) |->
              IF d.kids[i].k = key THEN KV(key, v) ELSE d.kids[i]]]
    ELSE [d EXCEPT !.kids = Append(d.kids, KV(key, v))]

Keys(d) == {d.kids[i].k : i \in 1..Len(d.kids)}

-----------------------------------------------------------------------------
(* The document normalizer *)

\* ElasticsearchService._extract_document_id; Raised when product_data is no
\* container ('_id' not in None raises TypeError)
_extract_document_id(product_data) ==
    IF product_data.t \in {"null", "int", "oid"} THEN Raised
    ELSE IF product_data.t # "dict" \/ ~HasKey(product_data, "_id") THEN None
    ELSE LET _id == Get(product_data, "_id") IN
         CASE _id.t = "oid" -> PyStr(_id)
           [] _id.t = "dict" /\ HasKey(_id, "$oid") -> Get(_id, "$oid")
           [] _id.t = "str" -> _id
           [] OTHER -> PyStr(_id)

\* the value a pair of attributes puts in flat_attributes
FlatValue(attr_value) ==
    LET attr_value_str == PyStr(attr_value) IN
    IF PyLen(attr_value_str) > AttrCap
    THEN Truncate(attr_value_str, AttrCap)
    ELSE attr_value_str

\* the pair enters flat_attributes: a dict with a truthy name and a value
EntersFlat(attr) ==
    /\ attr.t = "dict"
    /\ Truthy(Get(attr, "attr_name"))
    /\ Get(attr, "attr_value").t # "null"

\* the loop over prepared_data['attributes'] building flat_attributes
RECURSIVE FlatLoop(_, _)
FlatLoop(items, flat_attributes) ==
    IF items = <<>> THEN flat_attributes
    ELSE LET attr == Head(items).v IN
         FlatLoop(Tail(items),
                  IF EntersFlat(attr)
                  THEN SetKey(flat_attributes, Get(attr, "attr_name").a,
                              FlatValue(Get(attr, "attr_value")))
                  ELSE flat_attributes)

\* flat_attributes[attr_name] = ... raises TypeError for an unhashable name
UnhashableName(product_data) ==
    /\ HasKey(product_data, "attributes")
    /\ Get(product_data, "attributes").t = "list"
    /\ \E i \in 1..Len(Get(product_data, "attributes").kids) :
          LET attr == Get(product_data, "attributes").kids[i].v IN
          EntersFlat(attr) /\ Get(attr, "attr_name").t \in {"list", "dict"}

\* lines 269-284 of _prepare_product_data
WithFlatAttributes(prepared_data) ==
    IF HasKey(prepared_data, "attributes")
       /\ Get(prepared_data, "attributes").t = "list"
    THEN LET flat_attributes ==
                 FlatLoop(Get(prepared_data, "attributes").kids, Dict(<<>>))
         IN IF Truthy(flat_attributes)
            THEN SetKey(prepared_data, "flat_attributes", flat_attributes)
            ELSE prepared_data
    ELSE prepared_data

\* ElasticsearchService._validate_and_clean_data: the key _id is passed
\* over, and so is a field whose handling raises
RECURSIVE _validate_and_clean_data(_)
_validate_and_clean_data(data) ==
    LET kept == SelectSeq(data.kids,
                          LAMBDA e : e.k # "_id" /\ e.v.t # "hostile")
        CleanItem(item) ==
            IF item.v.t = "dict"
            THEN KV("", _validate_and_clean_data(item.v))
            ELSE item
        CleanValue(value) ==
            CASE value.t = "str" /\ PyLen(value) > StrCap ->
                     Truncate(value, StrCap)
              [] value.t = "list" ->
                     [value EXCEPT !.kids =
                         [i \in 1..Min(Len(value.kids), ListCap) |->
                              CleanItem(value.kids[i])]]
              [] value.t = "dict" -> _validate_and_clean_data(value)
              [] OTHER -> value
    IN [data EXCEPT !.kids =
           [i \in 1..Len(kept) |-> KV(kept[i].k, CleanValue(kept[i].v))]]

\* ElasticsearchService._convert_objectids_to_strings
RECURSIVE _convert_objectids_to_strings(_)
_convert_objectids_to_strings(data) ==
    CASE data.t = "oid" -> PyStr(data)
      [] data.t \in {"dict", "list"} ->
             [data EXCEPT !.kids = [i \in 1..Len(data.kids) |->
                 KV(data.kids[i].k,
                    _convert_objectids_to_strings(data.kids[i].v))]]
      [] OTHER -> data

\* a preparation that writes into the caller's mapping
WriteTargetCaller == "caller"

\* the mapping that lines 269-284 write flat_attributes into: the copy of
\* line 267
WriteTarget == "copy"

\* the caller's document after _prepare_product_data: the cleaning and the
\* conversion build new mappings and sequences and write into those
AfterPrepare(product_data) ==
    IF WriteTarget = "caller" /\ product_data.t = "dict"
       /\ ~UnhashableName(product_data)
    THEN WithFlatAttributes(product_data)
    ELSE product_data

\* ElasticsearchService._prepare_product_data; Raised when it raises
_prepare_product_data(product_data) ==
    IF product_data.t # "dict" \/ UnhashableName(product_data) THEN Raised
    ELSE _convert_objectids_to_strings(
             _validate_and_clean_data(WithFlatAttributes(product_data)))


-----------------------------------------------------------------------------
(* Raw documents: the inputs of the normalizer *)

ColorBlack == Dict(<<KV("attr_name", Str("color", 5)),
                     KV("attr_value", Str("black", 5))>>)

IdShape(kind) ==
    CASE kind = "absent" -> <<>>
      [] kind = "str" -> <<KV("_id", Str("1", 1))>>
      [] kind = "oid" -> <<KV("_id", Oid("2"))>>
      [] kind = "wrap" -> <<KV("_id", Dict(<<KV("$oid", Str("1", 1))>>))>>
      [] kind = "wrapint" -> <<KV("_id", Dict(<<KV("$oid", PyInt("7"))>>))>>
      [] kind = "int" -> <<KV("_id", PyInt("42"))>>

IdKinds == {"absent", "str", "oid", "wrap", "wrapint", "int"}

AttrShape(kind) ==
    CASE kind = "absent" -> <<>>
      [] kind = "empty" -> <<KV("attributes", List(<<>>))>>
      [] kind = "one" -> <<KV("attributes", List(<<ColorBlack>>))>>
      [] kind = "nullval" ->
             <<KV("attributes", List(<<ColorBlack,
                 Dict(<<KV("attr_name", Str("size", 4)),
                        KV("attr_value", None)>>)>>))>>
      [] kind = "dup" ->
             <<KV("attributes", List(<<ColorBlack,
                 Dict(<<KV("attr_name", Str("color", 5)),
                        KV("attr_value", Str("white", 5))>>)>>))>>
      [] kind = "noname" ->
             <<KV("attributes", List(<<
                 Dict(<<KV("attr_name", Str("", 0)),
                        KV("attr_value", Str("black", 5))>>),
                 Dict(<<KV("attr_value", Str("white", 5))>>)>>))>>
      [] kind = "long" ->
             <<KV("attributes", List(<<
                 Dict(<<KV("attr_name", Str("manual", 6)),
                        KV("attr_value", Str("longvalue", AttrCap + 500))>>),
                 Dict(<<KV("attr_name", Str("edge", 4)),
                        KV("attr_value", Str("edgevalue", AttrCap))>>)>>))>>
      [] kind = "unhashable" ->
             <<KV("attributes", List(<<
                 Dict(<<KV("attr_name", List(<<Str("color", 5)>>)),
                        KV("attr_value", Str("black", 5))>>)>>))>>
      [] kind = "mixed" ->
             <<KV("attributes", List(<<Str("black", 5), ColorBlack>>))>>
      [] kind = "idname" ->
             <<KV("attributes", List(<<
                 Dict(<<KV("attr_name", Str("_id", 3)),
                        KV("attr_value", Str("black", 5))>>)>>))>>
      [] kind = "intval" ->
             <<KV("attributes", List(<<
                 Dict(<<KV("attr_name", Str("power", 5)),
                        KV("attr_value", PyInt("4"))>>)>>))>>

AttrKinds == {"absent", "empty", "one", "nullval", "dup", "noname", "long",
              "unhashable", "mixed", "idname", "intval"}

ExtraShape(kind) ==
    CASE kind = "none" -> <<>>
      [] kind = "flat" ->
             <<KV("flat_attributes", Dict(<<KV("old", Str("stale", 5))>>))>>
      [] kind = "longtext" ->
             <<KV("description", Str("manual", StrCap + 2000)),
               KV("brand", Str("edge", StrCap))>>
      [] kind = "nested" ->
             <<KV("supplier", Dict(<<KV("_id", Oid("s1")),
                                     KV("ref", Oid("r1")),
                                     KV("name", Str("manual", StrCap + 1))>>))>>
      [] kind = "listed" ->
             <<KV("tags", List(<<Str("manual", StrCap + 2000),
                                 Dict(<<KV("note", Str("manual", StrCap + 2000)),
                                        KV("_id", Str("t1", 2))>>),
                                 Oid("t2"),
                                 List(<<Dict(<<KV("deep",
                                     Str("manual", StrCap + 2000))>>)>>)>>))>>

ExtraKinds == {"none", "flat", "longtext", "nested", "listed"}

-----------------------------------------------------------------------------
(* The record of the last operation *)

NoOp ==
    [op |-> "none",        \* the operation
     doc |-> None,         \* its input document, update or batch
     id |-> None,          \* the document id handed to the engine
     out |-> None,         \* the prepared document, the returned document,
                           \* the prepared actions of a batch
     key |-> "",           \* the index key written or asked for
     connected |-> FALSE,  \* the result of its ensure_connection check
     calls |-> <<>>,       \* the engine calls it issued, in order
     raised |-> FALSE,     \* an exception left the operation
     ok |-> FALSE,         \* its boolean result
     given |-> 0,          \* length of the input list of bulk_add_products
     prepFailed |-> 0,     \* documents of the batch that fail preparation
     actions |-> 0,        \* prepared actions of the batch
     path |-> "",          \* how the batch ended
     ret |-> [success |-> 0, failed |-> 0, total |-> 0, accepted |-> {}],
                           \* the returned counts, and the positions of the
                           \* actions the engine accepted
     query |-> [word |-> "", pad |-> FALSE],  \* the search request
     size |-> 0,
     from |-> 0,
     search_type |-> "",
     status |-> 0,         \* the HTTP status of an endpoint
     total |-> 0,          \* the returned total
     products |-> <<>>,    \* the returned products, each with the id of the
                           \* engine's hit it comes from
     title_products |-> <<>>,  \* combined mode: what the two searches gave
     attr_products |-> <<>>,
     retry |-> FALSE,      \* connect: its retry argument
     probes |-> <<>>,      \* connect: what each attempt would meet
     attempts |-> 0,       \* connect: the attempts it made
     had |-> FALSE,        \* connect: is_connected() before the call
     held |-> 0,           \* create_index: the documents the index held
     request |-> [keys |-> {}, sort |-> <<>>, size |-> 0, from |-> 0],
                           \* the body of the search sent to the engine
     shape |-> "",         \* the shape of hits.total in the response
     after |-> None,       \* the caller's document or batch after the call
     waits |-> <<>>]       \* connect: its sleeps, in eighths of a second

-----------------------------------------------------------------------------
(* The engine *)

Position(idx, key) ==
    IF \E i \in 1..Len(idx) : idx[i].id = key
    THEN CHOOSE i \in 1..Len(idx) : idx[i].id = key
    ELSE 0

\* index a document under a key: replace the entry of that key, or add one
Upsert(idx, key, src) ==
    IF Position(idx, key) > 0
    THEN [idx EXCEPT ![Position(idx, key)] = [id |-> key, src |-> src]]
    ELSE Append(idx, [id |-> key, src |-> src])

\* the id the engine generates for a document that comes with id None
AutoId(n) == "auto" \o ToString(n)

\* the key under which the engine stores a document handed over with doc_id
KeyOf(doc_id) == IF doc_id.t = "null" THEN AutoId(autoIds + 1) ELSE doc_id.a

\* index the actions acts[i], i in order, for the positions in accepted: a
\* key of the index gets the source of the last accepted action of that
\* key, and the new keys follow in the order of their first accepted action
IndexAll(idx, acts, accepted, i) ==
    LET written == {j \in accepted : i <= j /\ j <= Len(acts)}
        Last(key) ==
            CHOOSE j \in written :
                /\ acts[j].key = key
                /\ \A k \in written : acts[k].key = key => k <= j
        firsts ==
            SelectSeq([j \in 1..Len(acts) |-> j],
                      LAMBDA j : /\ j \in written
                                 /\ Position(idx, acts[j].key) = 0
                                 /\ \A k \in written :
                                        acts[k].key = acts[j].key => j <= k)
    IN [p \in 1..Len(idx) |->
           IF \E j \in written : acts[j].key = idx[p].id
           THEN [id |-> idx[p].id, src |-> acts[Last(idx[p].id)].src]
           ELSE idx[p]]
       \o [n \in 1..Len(firsts) |->
              [id |-> acts[firsts[n]].key,
               src |-> acts[Last(acts[firsts[n]].key)].src]]

-----------------------------------------------------------------------------
(* The connection manager *)

\* ElasticsearchService.is_connected: a handle, and the ping answers
is_connected == es # "none" /\ engineUp

\* a connect that reports its success and keeps no handle
connect_keeps_no_handle(retry) ==
    [ok |-> engineUp, es |-> "none",
     attempts |-> IF engineUp \/ ~retry THEN 1 ELSE MaxRetries]

\* what an attempt of connect meets: the probe answers, the probe returns
\* false, the client or the probe raises
AttemptOutcomes == {"pong", "silent", "raise"}

\* a connect loop that leaves the handle of its last attempt in place when
\* the attempts are used up
connect_loop_dangling(outcomes, attempt, max_retries) ==
    IF \E i \in attempt..max_retries : outcomes[i] = "pong"
    THEN [ok |-> TRUE, es |-> "client",
          attempts |-> CHOOSE i \in attempt..max_retries :
                          /\ outcomes[i] = "pong"
                          /\ \A j \in attempt..(i - 1) : outcomes[j] # "pong"]
    ELSE [ok |-> FALSE,
          es |-> IF outcomes[max_retries] = "silent" THEN "client" ELSE "none",
          attempts |-> max_retries]

\* the loop of ElasticsearchService.connect from the given attempt on: each
\* attempt is counted, the first answered probe returns True with the handle
\* kept, and when the attempts are used up the handle is cleared
RECURSIVE connect_loop(_, _, _)
connect_loop(outcomes, attempt, max_retries) ==
    IF attempt > max_retries
    THEN [ok |-> FALSE, es |-> "none", attempts |-> max_retries]
    ELSE IF outcomes[attempt] = "pong"
    THEN [ok |-> TRUE, es |-> "client", attempts |-> attempt]
    ELSE connect_loop(outcomes, attempt + 1, max_retries)

\* retry_delay = 2
RetryDelay == 2

\* min(retry_delay * 1.5, 10)
DelayCap == 10

\* a connect that sleeps after every failed attempt, the last one included
connect_sleeps_each(outcomes, attempt, max_retries, retry_delay) ==
    [i \in 1..(IF \E j \in attempt..max_retries : outcomes[j] = "pong"
               THEN (CHOOSE j \in attempt..max_retries :
                        /\ outcomes[j] = "pong"
                        /\ \A k \in attempt..(j - 1) : outcomes[k] # "pong")
                    - attempt
               ELSE max_retries - attempt + 1) |-> retry_delay]

\* the sleeps of the loop of connect from the given attempt on, in eighths
\* of a second: after a failed attempt that is not the last one the loop
\* sleeps retry_delay and multiplies it by 1.5 up to the cap
RECURSIVE connect_sleeps(_, _, _, _)
connect_sleeps(outcomes, attempt, max_retries, retry_delay) ==
    IF attempt > max_retries \/ outcomes[attempt] = "pong" THEN <<>>
    ELSE IF attempt < max_retries
    THEN <<retry_delay>> \o
         connect_sleeps(outcomes, attempt + 1, max_retries,
                        Min((retry_delay * 3) \div 2, 8 * DelayCap))
    ELSE <<>>

\* ElasticsearchService.connect while the engine keeps its state: the first
\* attempt succeeds, or every attempt fails and the handle is cleared
connect(retry) ==
    connect_loop([i \in 1..MaxRetries |->
                     IF engineUp THEN "pong" ELSE "raise"],
                 1, IF retry THEN MaxRetries ELSE 1)

\* ElasticsearchService.ensure_connection: called by every operation and
\* defined nowhere in the sources; after the specification, section 4.1: the
\* probe of the handle, and a connect when it fails
ensure_connection ==
    IF is_connected
    THEN [ok |-> TRUE, es |-> es, attempts |-> 0]
    ELSE connect(TRUE)

\* the effect of a connectivity check or connect on the service
Connection(c) ==
    /\ connection_attempts + c.attempts <= MaxAttempts
    /\ es' = c.es
    /\ connection_attempts' = connection_attempts + c.attempts
    /\ UNCHANGED engineUp

EngineUnchanged == UNCHANGED <<exists, index, autoIds>>

\* main.py lifespan: elasticsearch_service.connect([es_url])
Connect ==
    /\ Connection(connect(TRUE))
    /\ EngineUnchanged
    /\ last' = [NoOp EXCEPT !.op = "connect", !.ok = connect(TRUE).ok,
                            !.connected = connect(TRUE).ok]

\* the environment: the engine becomes unreachable, or reachable again
EngineFails ==
    /\ engineUp
    /\ engineUp' = FALSE
    /\ UNCHANGED <<es, connection_attempts, exists, index, autoIds, last>>

EngineRecovers ==
    /\ ~engineUp
    /\ engineUp' = TRUE
    /\ UNCHANGED <<es, connection_attempts, exists, index, autoIds, last>>

-----------------------------------------------------------------------------
(* Ingestion *)

\* an add_product without its exception handler: what the engine's index
\* call raises leaves the operation
add_product_no_handler(product_data, fault) ==
    \E c \in {ensure_connection} :
    \E doc_id \in {_extract_document_id(product_data)} :
    \E prepared_data \in {_prepare_product_data(product_data)} :
    \E op \in {[NoOp EXCEPT !.op = "add_product", !.doc = product_data,
                            !.connected = c.ok]} :
    /\ Connection(c)
    /\ IF ~c.ok
       THEN /\ last' = op
            /\ EngineUnchanged
       ELSE IF doc_id.t = "raise" \/ prepared_data.t = "raise"
       THEN /\ last' = [op EXCEPT !.id = doc_id, !.out = prepared_data]
            /\ EngineUnchanged
       ELSE IF fault
       THEN /\ last' = [op EXCEPT !.id = doc_id, !.out = prepared_data,
                                  !.calls = <<"index">>, !.raised = TRUE]
            /\ EngineUnchanged
       ELSE /\ doc_id.t = "null" => autoIds < MaxAutoIds
            /\ last' = [op EXCEPT !.id = doc_id, !.out = prepared_data,
                                  !.calls = <<"index">>, !.ok = TRUE,
                                  !.key = KeyOf(doc_id)]
            /\ index' = Upsert(index, KeyOf(doc_id), prepared_data)
            /\ exists' = TRUE
            /\ autoIds' = IF doc_id.t = "null" THEN autoIds + 1 ELSE autoIds

\* ElasticsearchService.add_product; fault: the engine's index call raises
add_product(product_data, fault) ==
    \E c \in {ensure_connection} :
    \E doc_id \in {_extract_document_id(product_data)} :
    \E prepared_data \in {_prepare_product_data(product_data)} :
    \E op \in {[NoOp EXCEPT !.op = "add_product", !.doc = product_data,
                            !.connected = c.ok,
                            !.after = IF c.ok THEN AfterPrepare(product_data)
                                      ELSE product_data]} :
    /\ Connection(c)
    /\ IF ~c.ok
       THEN /\ last' = op
            /\ EngineUnchanged
       ELSE IF doc_id.t = "raise" \/ prepared_data.t = "raise"
       THEN /\ last' = [op EXCEPT !.id = doc_id, !.out = prepared_data]
            /\ EngineUnchanged
       ELSE IF fault
       THEN /\ last' = [op EXCEPT !.id = doc_id, !.out = prepared_data,
                                  !.calls = <<"index">>]
            /\ EngineUnchanged
       ELSE /\ doc_id.t = "null" => autoIds < MaxAutoIds
            /\ last' = [op EXCEPT !.id = doc_id, !.out = prepared_data,
                                  !.calls = <<"index">>, !.ok = TRUE,
                                  !.key = KeyOf(doc_id)]
            /\ index' = Upsert(index, KeyOf(doc_id), prepared_data)
            /\ exists' = TRUE
            /\ autoIds' = IF doc_id.t = "null" THEN autoIds + 1 ELSE autoIds

\* ElasticsearchService.get_product_by_id; fault: the engine's get raises
\* another exception than NotFoundError
get_product_by_id(product_id, fault) ==
    \E c \in {ensure_connection} :
    \E op \in {[NoOp EXCEPT !.op = "get_product_by_id", !.key = product_id,
                            !.connected = c.ok]} :
    /\ Connection(c)
    /\ EngineUnchanged
    /\ IF ~c.ok \/ product_id = ""
       THEN last' = op
       ELSE IF fault \/ ~exists \/ Position(index, product_id) = 0
       THEN last' = [op EXCEPT !.calls = <<"get">>]
       ELSE last' = [op EXCEPT !.calls = <<"get">>, !.ok = TRUE,
                               !.out = index[Position(index, product_id)].src]

\* a preparation loop that gives up at the first document that fails
RECURSIVE PrepareActionsAborting(_)
PrepareActionsAborting(products) ==
    IF products = <<>> THEN <<>>
    ELSE LET doc_id == _extract_document_id(Head(products))
             prepared_data == _prepare_product_data(Head(products))
         IN IF doc_id.t = "raise" \/ prepared_data.t = "raise"
            THEN <<>>
            ELSE <<[_id |-> doc_id, _source |-> prepared_data]>>
                 \o PrepareActionsAborting(Tail(products))

\* the preparation loop of bulk_add_products: the actions of the documents
\* that _extract_document_id and _prepare_product_data accept, in order
PrepareActions(products) ==
    SelectSeq([i \in 1..Len(products) |->
                  [_id |-> _extract_document_id(products[i]),
                   _source |-> _prepare_product_data(products[i])]],
              LAMBDA action : action._id.t # "raise"
                                  /\ action._source.t # "raise")

NullIds(actions, upto) ==
    Cardinality({i \in 1..Min(upto, Len(actions)) : actions[i]._id.t = "null"})

\* the keys under which the engine stores the actions, in order
Keyed(actions, autos) ==
    [i \in 1..Len(actions) |->
        [key |-> IF actions[i]._id.t = "null"
                 THEN AutoId(autos + NullIds(actions, i))
                 ELSE actions[i]._id.a,
         src |-> actions[i]._source]]

\* chunk_size=500 of the bulk helper
ChunkSize == 500

\* ElasticsearchService._fallback_bulk_add; raising: the positions of the
\* actions whose index call raises
_fallback_bulk_add(actions, raising, initial_failed, total_products) ==
    LET tried == 1..Min(FallbackSample, Len(actions))
        success_count == Cardinality(tried \ raising)
        failed_count == initial_failed + Cardinality(tried \cap raising)
    IN [success |-> success_count,
        failed |-> failed_count + (Len(actions) - FallbackSample),
        total |-> total_products,
        accepted |-> tried \ raising]

\* the counts bulk_add_products returns after the bulk helper returned
\* having rejected the actions at the positions in bad
BulkCounts(actions, bad, failed_products, total_products) ==
    [success |-> Len(actions) - Cardinality(bad),
     failed |-> Cardinality(bad) + failed_products,
     total |-> total_products,
     accepted |-> (1..Len(actions)) \ bad]

\* the counts of the branches that give the whole batch up
AllFailed(total_products) ==
    [success |-> 0, failed |-> total_products, total |-> total_products,
     accepted |-> {}]

\* ElasticsearchService.bulk_add_products. The engine's part: outcome "bulk"
\* (the bulk helper returns; it rejected the actions at the positions in
\* bad), "throw" (the bulk helper raises before it wrote; the index calls of
\* the fallback raise at the positions in bad), "unexpected" (an exception
\* outside the inner handlers, before the bulk call, reaches the outer one),
\* "partial" (the bulk helper raises after the engine wrote its first chunk;
\* the index calls of the fallback raise at the positions in bad)
bulk_add_products(products, outcome, bad) ==
    \E c \in {ensure_connection} :
    \E actions \in {PrepareActions(products)} :
    \E failed_products \in {Len(products) - Len(actions)} :
    \E op \in {[NoOp EXCEPT !.op = "bulk_add_products",
                            !.given = Len(products), !.connected = c.ok,
                            !.prepFailed = failed_products,
                            !.doc = List(products),
                            !.after = IF c.ok
                                      THEN List([i \in 1..Len(products) |->
                                               AfterPrepare(products[i])])
                                      ELSE List(products),
                            !.out = IF c.ok
                                    THEN List([i \in 1..Len(actions) |->
                                        Dict(<<KV("_id", actions[i]._id),
                                               KV("_source",
                                                  actions[i]._source)>>)])
                                    ELSE None]} :
    /\ Connection(c)
    /\ IF ~c.ok
       THEN /\ last' = [op EXCEPT !.path = "unavailable",
                                  !.ret = AllFailed(Len(products))]
            /\ EngineUnchanged
       ELSE IF products = <<>>
       THEN /\ last' = [op EXCEPT !.path = "empty",
                           !.ret = [AllFailed(0) EXCEPT !.failed = 0]]
            /\ EngineUnchanged
       ELSE IF actions = <<>>
       THEN /\ last' = [op EXCEPT !.path = "unprepared",
                                  !.ret = AllFailed(Len(products))]
            /\ EngineUnchanged
       ELSE \E ret \in {CASE outcome = "bulk" ->
                                BulkCounts(actions, bad, failed_products,
                                           Len(products))
                          [] outcome = "throw" ->
                                _fallback_bulk_add(actions, bad,
                                    failed_products, Len(products))
                          [] outcome = "partial" ->
                                [_fallback_bulk_add(actions, bad,
                                     failed_products, Len(products))
                                 EXCEPT !.accepted = @ \cup
                                     1..Min(ChunkSize, Len(actions))]
                          [] outcome = "unexpected" ->
                                AllFailed(Len(products))} :
            /\ bad \subseteq 1..Len(actions)
            /\ outcome = "unexpected" => bad = {}
            /\ autoIds + NullIds(actions, Len(actions)) <= MaxAutoIds
            /\ last' = [op EXCEPT
                   !.path = outcome,
                   !.actions = Len(actions),
                   !.ret = ret,
                   !.calls =
                       CASE outcome = "bulk" -> <<"bulk">>
                         [] outcome \in {"throw", "partial"} ->
                                <<"bulk">> \o
                                [i \in 1..Min(FallbackSample, Len(actions))
                                    |-> "index"]
                         [] outcome = "unexpected" -> <<>>]
            /\ index' = IndexAll(index, Keyed(actions, autoIds),
                                 ret.accepted, 1)
            /\ exists' = (exists \/ ret.accepted # {})
            /\ autoIds' = autoIds + NullIds(actions, Len(actions))

-----------------------------------------------------------------------------
(* Index management, update and delete *)

\* a create_index that leaves an existing index as it is
create_index_if_absent(fault) ==
    \E c \in {ensure_connection} :
    \E op \in {[NoOp EXCEPT !.op = "create_index", !.connected = c.ok,
                            !.held = Len(index)]} :
    /\ Connection(c)
    /\ UNCHANGED autoIds
    /\ IF ~c.ok \/ fault # "none"
       THEN /\ last' = op
            /\ UNCHANGED <<exists, index>>
       ELSE /\ last' = [op EXCEPT !.ok = TRUE, !.calls =
                           IF exists THEN <<"exists">>
                           ELSE <<"exists", "create">>]
            /\ exists' = TRUE
            /\ UNCHANGED index

\* ElasticsearchService.create_index; fault: the engine call that raises
\* ("exists", "delete", "create"), or "none"
create_index(fault) ==
    \E c \in {ensure_connection} :
    \E op \in {[NoOp EXCEPT !.op = "create_index", !.connected = c.ok,
                            !.held = Len(index)]} :
    /\ Connection(c)
    /\ UNCHANGED autoIds
    /\ IF ~c.ok
       THEN /\ last' = op
            /\ UNCHANGED <<exists, index>>
       ELSE IF fault = "exists"
       THEN /\ last' = [op EXCEPT !.calls = <<"exists">>]
            /\ UNCHANGED <<exists, index>>
       ELSE IF exists /\ fault = "delete"
       THEN /\ last' = [op EXCEPT !.calls = <<"exists", "delete">>]
            /\ UNCHANGED <<exists, index>>
       ELSE IF fault = "create"
       THEN /\ last' = [op EXCEPT !.calls =
                           IF exists THEN <<"exists", "delete", "create">>
                           ELSE <<"exists", "create">>]
            /\ exists' = FALSE
            /\ index' = <<>>
       ELSE /\ fault = "none"
            /\ last' = [op EXCEPT !.ok = TRUE, !.calls =
                           IF exists THEN <<"exists", "delete", "create">>
                           ELSE <<"exists", "create">>]
            /\ exists' = TRUE
            /\ index' = <<>>

\* a delete_product that goes to the engine whatever the connectivity check
\* said
delete_product_unchecked(product_id, fault) ==
    \E c \in {ensure_connection} :
    \E op \in {[NoOp EXCEPT !.op = "delete_product", !.key = product_id,
                            !.connected = c.ok]} :
    /\ Connection(c)
    /\ UNCHANGED <<exists, autoIds>>
    /\ IF product_id = ""
       THEN /\ last' = op
            /\ UNCHANGED index
       ELSE IF fault \/ ~exists \/ Position(index, product_id) = 0
       THEN /\ last' = [op EXCEPT !.calls = <<"delete">>]
            /\ UNCHANGED index
       ELSE /\ last' = [op EXCEPT !.calls = <<"delete">>, !.ok = TRUE]
            /\ index' = SelectSeq(index, LAMBDA e : e.id # product_id)

\* ElasticsearchService.delete_product; fault: the engine's delete raises
\* another exception than NotFoundError
delete_product(product_id, fault) ==
    \E c \in {ensure_connection} :
    \E op \in {[NoOp EXCEPT !.op = "delete_product", !.key = product_id,
                            !.connected = c.ok]} :
    /\ Connection(c)
    /\ UNCHANGED <<exists, autoIds>>
    /\ IF ~c.ok \/ product_id = ""
       THEN /\ last' = op
            /\ UNCHANGED index
       ELSE IF fault \/ ~exists \/ Position(index, product_id) = 0
       THEN /\ last' = [op EXCEPT !.calls = <<"delete">>]
            /\ UNCHANGED index
       ELSE /\ last' = [op EXCEPT !.calls = <<"delete">>, !.ok = TRUE]
            /\ index' = SelectSeq(index, LAMBDA e : e.id # product_id)

\* ElasticsearchService.clear_index; fault: the engine's delete_by_query
\* raises
clear_index(fault) ==
    \E c \in {ensure_connection} :
    \E op \in {[NoOp EXCEPT !.op = "clear_index", !.connected = c.ok]} :
    /\ Connection(c)
    /\ UNCHANGED <<exists, autoIds>>
    /\ IF ~c.ok
       THEN /\ last' = op
            /\ UNCHANGED index
       ELSE IF fault \/ ~exists
       THEN /\ last' = [op EXCEPT !.calls = <<"delete_by_query">>]
            /\ UNCHANGED index
       ELSE /\ last' = [op EXCEPT !.calls = <<"delete_by_query">>,
                                  !.ok = TRUE]
            /\ index' = <<>>

\* ElasticsearchService.get_stats; ok: the map carries no "error"; total:
\* its documents_count
get_stats(fault) ==
    \E c \in {ensure_connection} :
    \E op \in {[NoOp EXCEPT !.op = "get_stats", !.connected = c.ok]} :
    /\ Connection(c)
    /\ EngineUnchanged
    /\ IF ~c.ok
       THEN last' = op
       ELSE IF fault = "exists" \/ ~exists
       THEN last' = [op EXCEPT !.calls = <<"exists">>]
       ELSE IF fault = "stats"
       THEN last' = [op EXCEPT !.calls = <<"exists", "stats">>]
       ELSE /\ fault = "none"
            /\ last' = [op EXCEPT !.calls = <<"exists", "stats">>,
                                  !.ok = TRUE, !.total = Len(index)]

\* the engine's partial update: the fields of doc merged into the stored
\* document, mappings field by field, every other value replaced
RECURSIVE DocMerge(_, _)
DocMerge(stored, doc) ==
    IF doc.kids = <<>> THEN stored
    ELSE LET field == Head(doc.kids)
             rest == [doc EXCEPT !.kids = Tail(doc.kids)]
         IN IF field.v.t = "dict" /\ Get(stored, field.k).t = "dict"
            THEN DocMerge(SetKey(stored, field.k,
                                 DocMerge(Get(stored, field.k), field.v)),
                          rest)
            ELSE DocMerge(SetKey(stored, field.k, field.v), rest)

\* an update_product that stores the update as a new document when the id
\* is not in the index
update_product_upserting(product_id, update_data, fault) ==
    \E c \in {ensure_connection} :
    \E prepared_data \in {_prepare_product_data(update_data)} :
    \E op \in {[NoOp EXCEPT !.op = "update_product", !.key = product_id,
                            !.doc = update_data, !.connected = c.ok]} :
    /\ Connection(c)
    /\ UNCHANGED <<exists, autoIds>>
    /\ IF ~c.ok \/ product_id = ""
       THEN /\ last' = op
            /\ UNCHANGED index
       ELSE IF prepared_data.t = "raise"
       THEN /\ last' = [op EXCEPT !.out = prepared_data]
            /\ UNCHANGED index
       ELSE IF fault \/ ~exists
       THEN /\ last' = [op EXCEPT !.out = prepared_data,
                                  !.calls = <<"update">>]
            /\ UNCHANGED index
       ELSE IF Position(index, product_id) = 0
       THEN /\ last' = [op EXCEPT !.out = prepared_data,
                                  !.calls = <<"update">>, !.ok = TRUE]
            /\ index' = Upsert(index, product_id, prepared_data)
       ELSE /\ last' = [op EXCEPT !.out = prepared_data,
                                  !.calls = <<"update">>, !.ok = TRUE]
            /\ index' = [index EXCEPT ![Position(index, product_id)].src =
                            DocMerge(@, prepared_data)]

\* ElasticsearchService.update_product; fault: the engine's update raises
\* another exception than NotFoundError
update_product(product_id, update_data, fault) ==
    \E c \in {ensure_connection} :
    \E prepared_data \in {_prepare_product_data(update_data)} :
    \E op \in {[NoOp EXCEPT !.op = "update_product", !.key = product_id,
                            !.doc = update_data, !.connected = c.ok]} :
    /\ Connection(c)
    /\ UNCHANGED <<exists, autoIds>>
    /\ IF ~c.ok \/ product_id = ""
       THEN /\ last' = op
            /\ UNCHANGED index
       ELSE IF prepared_data.t = "raise"
       THEN /\ last' = [op EXCEPT !.out = prepared_data]
            /\ UNCHANGED index
       ELSE IF fault \/ ~exists \/ Position(index, product_id) = 0
       THEN /\ last' = [op EXCEPT !.out = prepared_data,
                                  !.calls = <<"update">>]
            /\ UNCHANGED index
       ELSE /\ last' = [op EXCEPT !.out = prepared_data,
                                  !.calls = <<"update">>, !.ok = TRUE]
            /\ index' = [index EXCEPT ![Position(index, product_id)].src =
                            DocMerge(@, prepared_data)]

-----------------------------------------------------------------------------
(* Search: the queries the service builds and the engine's answer *)

\* query.strip() of a query "word" or " word "
Strip(query) == query.word

\* a check that takes only the empty query for blank
BlankUnstripped(query) == query.word = "" /\ ~query.pad

\* not query or not query.strip()
Blank(query) == Strip(query) = ""

\* a title query that searches the attribute values
TitleQueryOverAttributes(query) ==
    [kind |-> "nested", fields |-> {"attr_value"}, text |-> Strip(query)]

\* the multi_match query of search_products_by_title
TitleQuery(query) ==
    [kind |-> "multi_match",
     fields |-> {"title", "brand", "description", "article"},
     text |-> Strip(query)]

\* the nested query of search_products_by_attributes_text
AttrQuery(query) ==
    [kind |-> "nested", fields |-> {"attr_value"}, text |-> Strip(query)]

\* the engine: a field value matches a query text
TextMatch(value, text) ==
    text # "" /\ value.t \in {"str", "int"} /\ value.n > 0 /\ value.a = text

\* the engine: the pairs of a document's attributes that a nested query hits
MatchedAttributes(src, q) ==
    IF HasKey(src, "attributes") /\ Get(src, "attributes").t = "list"
    THEN SelectSeq(Get(src, "attributes").kids,
                   LAMBDA e : e.v.t = "dict" /\
                       \E f \in q.fields : TextMatch(Get(e.v, f), q.text))
    ELSE <<>>

\* the engine: a document matches a query
QueryMatch(q, src) ==
    IF q.kind = "match_all" THEN TRUE
    ELSE IF q.kind = "nested"
    THEN MatchedAttributes(src, q) # <<>>
    ELSE \E f \in q.fields : HasKey(src, f) /\ TextMatch(Get(src, f), q.text)

Reverse(seq) == [i \in 1..Len(seq) |-> seq[Len(seq) + 1 - i]]

\* the engine: the hits of a query in the order of its ranking (the index
\* order for a multi_match query, the opposite order for a nested one)
Ranked(q) ==
    LET hits == SelectSeq(index, LAMBDA e : QueryMatch(q, e.src))
    IN IF q.kind = "nested" THEN Reverse(hits) ELSE hits

\* the engine: hits.total is a number or a mapping {"value": number}
TotalShapes == {"bare", "wrapper"}

\* the engine: response['hits']['total'] for n hits
HitsTotal(n, shape) ==
    [t |-> IF shape = "wrapper" THEN "dict" ELSE "int", value |-> n]

\* the engine: the response to a search with size and from
Search(q, size, from_, shape) ==
    [total |-> HitsTotal(Len(Ranked(q)), shape),
     hits |-> SubSeq(Ranked(q), from_ + 1, Min(from_ + size, Len(Ranked(q))))]

\* total_value: total.get('value', 0) of a mapping, else total itself
total_value(total) ==
    IF total.t = "dict" THEN [t |-> "int", value |-> total.value]
    ELSE total

\* {"total": 0, "products": [], "took": 0}; answered: the engine answered
NoHits ==
    [total |-> 0, products |-> <<>>, calls |-> <<>>, answered |-> FALSE,
     shape |-> ""]

\* full_query of search_products_by_title and of
\* search_products_by_attributes_text: size, from and the two sort keys
FullQuery(size, from_) ==
    [keys |-> {"query", "size", "from", "sort"},
     sort |-> <<"_score desc", "created_at desc">>,
     size |-> size,
     from |-> from_]

\* the body of the search of search_by_attributes: size and one sort key
PairsBody(size) ==
    [keys |-> {"query", "size", "sort"},
     sort |-> <<"_score desc">>,
     size |-> size,
     from |-> 0]

\* ElasticsearchService.search_products_by_title after its connectivity
\* check; fault: the engine's search raises
TitleSearch(query, size, from_, fault, shape) ==
    IF Blank(query) THEN NoHits
    ELSE IF fault \/ ~exists THEN [NoHits EXCEPT !.calls = <<"search">>]
    ELSE LET response == Search(TitleQuery(query), size, from_, shape)
         IN [total |-> total_value(response.total).value,
             shape |-> shape,
             products |-> response.hits,
             calls |-> <<"search">>,
             answered |-> TRUE]

\* ElasticsearchService.search_products_by_attributes_text after its
\* connectivity check: each product is the hit's _source with the inner hits
\* under _matched_attributes
AttrSearch(query, size, from_, fault, shape) ==
    IF Blank(query) THEN NoHits
    ELSE IF fault \/ ~exists THEN [NoHits EXCEPT !.calls = <<"search">>]
    ELSE LET response == Search(AttrQuery(query), size, from_, shape)
         IN [total |-> total_value(response.total).value,
             shape |-> shape,
             products |-> [i \in 1..Len(response.hits) |->
                 [id |-> response.hits[i].id,
                  src |-> SetKey(response.hits[i].src, "_matched_attributes",
                      [Get(response.hits[i].src, "attributes") EXCEPT !.kids =
                          MatchedAttributes(response.hits[i].src,
                                            AttrQuery(query))])]],
             calls |-> <<"search">>,
             answered |-> TRUE]

search_products_by_title(query, size, from_, fault, shape) ==
    \E c \in {ensure_connection} :
    \E r \in {IF c.ok THEN TitleSearch(query, size, from_, fault, shape)
              ELSE NoHits} :
    /\ Connection(c)
    /\ EngineUnchanged
    /\ last' = [NoOp EXCEPT !.op = "search_products_by_title",
                   !.connected = c.ok, !.query = query, !.size = size,
                   !.from = from_, !.ok = r.answered,
                   !.total = r.total, !.products = r.products,
                   !.calls = r.calls, !.shape = r.shape,
                   !.request = IF r.calls = <<>> THEN NoOp.request
                               ELSE FullQuery(size, from_)]

search_products_by_attributes_text(query, size, from_, fault, shape) ==
    \E c \in {ensure_connection} :
    \E r \in {IF c.ok THEN AttrSearch(query, size, from_, fault, shape)
              ELSE NoHits} :
    /\ Connection(c)
    /\ EngineUnchanged
    /\ last' = [NoOp EXCEPT !.op = "search_products_by_attributes_text",
                   !.connected = c.ok, !.query = query, !.size = size,
                   !.from = from_, !.ok = r.answered,
                   !.total = r.total, !.products = r.products,
                   !.calls = r.calls, !.shape = r.shape,
                   !.request = IF r.calls = <<>> THEN NoOp.request
                               ELSE FullQuery(size, from_)]

\* the engine: one attribute pair carries the requested name and value
PairMatch(attr, attr_name, attr_value, exact_match) ==
    /\ attr.t = "dict"
    /\ Get(attr, "attr_name").t = "str"
    /\ Get(attr, "attr_name").a = attr_name
    /\ Get(attr, "attr_name").n > 0
    /\ IF exact_match
       THEN Get(attr, "attr_value").t = "str"
            /\ Get(attr, "attr_value") = PyStr(attr_value)
       ELSE TextMatch(Get(attr, "attr_value"), PyStr(attr_value).a)

\* an engine that looks for the name and for the value among all the pairs
\* of a document, not in one pair
PairsMatchFlattened(src, must_conditions, exact_match) ==
    /\ HasKey(src, "attributes")
    /\ Get(src, "attributes").t = "list"
    /\ \A i \in 1..Len(must_conditions) :
          /\ \E j \in 1..Len(Get(src, "attributes").kids) :
                 Get(Get(src, "attributes").kids[j].v, "attr_name").a =
                     must_conditions[i].k
          /\ \E j \in 1..Len(Get(src, "attributes").kids) :
                 Get(Get(src, "attributes").kids[j].v, "attr_value").a =
                     PyStr(must_conditions[i].v).a

\* the engine: a document satisfies every nested condition of the query
\* of search_by_attributes
PairsMatch(src, must_conditions, exact_match) ==
    /\ HasKey(src, "attributes")
    /\ Get(src, "attributes").t = "list"
    /\ \A i \in 1..Len(must_conditions) :
          \E j \in 1..Len(Get(src, "attributes").kids) :
              PairMatch(Get(src, "attributes").kids[j].v,
                        must_conditions[i].k, must_conditions[i].v,
                        exact_match)

\* ElasticsearchService.search_by_attributes; attributes is a dict of
\* requested name -> value
search_by_attributes(attributes, size, exact_match, fault, shape) ==
    \E c \in {ensure_connection} :
    \E must_conditions \in
        {SelectSeq(attributes.kids, LAMBDA e : e.v.t # "null")} :
    \E hits \in {SelectSeq(index, LAMBDA e :
                     PairsMatch(e.src, must_conditions, exact_match))} :
    \E op \in {[NoOp EXCEPT !.op = "search_by_attributes",
                   !.connected = c.ok, !.doc = attributes, !.size = size,
                   !.search_type = IF exact_match THEN "exact"
                                   ELSE "fuzzy"]} :
    /\ Connection(c)
    /\ EngineUnchanged
    /\ IF ~c.ok \/ ~Truthy(attributes) \/ must_conditions = <<>>
       THEN last' = op
       ELSE IF fault \/ ~exists
       THEN last' = [op EXCEPT !.calls = <<"search">>,
                               !.request = PairsBody(size)]
       ELSE last' = [op EXCEPT !.calls = <<"search">>, !.ok = TRUE,
                        !.request = PairsBody(size),
                        !.shape = shape,
                        !.total =
                            total_value(HitsTotal(Len(hits), shape)).value,
                        !.products = SubSeq(hits, 1, Min(size, Len(hits)))]

\* str(product["_id"]) of a product that has the key
ProductId(product) == PyStr(Get(product, "_id")).a

\* search_combined, lines 171-174: the ids of the Title-mode products
SeenIds(products) ==
    {ProductId(products[i].src) :
        i \in {j \in 1..Len(products) : HasKey(products[j].src, "_id")}}

\* search_combined, lines 177-181: append the Attribute-mode products whose
\* str(product.get("_id", "")) was not seen
RECURSIVE AppendUnseen(_, _, _)
AppendUnseen(combined_products, seen_ids, products) ==
    IF products = <<>> THEN combined_products
    ELSE LET product_id ==
                 IF HasKey(Head(products).src, "_id")
                 THEN ProductId(Head(products).src)
                 ELSE ""
         IN IF product_id \notin seen_ids
            THEN AppendUnseen(Append(combined_products, Head(products)),
                              seen_ids \cup {product_id}, Tail(products))
            ELSE AppendUnseen(combined_products, seen_ids, Tail(products))

\* search_combined, lines 167-184
Merge(title_products, attr_products, size) ==
    SubSeq(AppendUnseen(title_products, SeenIds(title_products),
                        attr_products),
           1, Min(size, Len(AppendUnseen(title_products,
                                         SeenIds(title_products),
                                         attr_products))))

\* the endpoint search_combined; title_fault, attr_fault: the engine's search
\* raises in the Title-mode, in the Attribute-mode call
search_combined(q, search_type, size, from_, title_fault, attr_fault, shape) ==
    \E c \in {ensure_connection} :
    \E op \in {[NoOp EXCEPT !.op = "search_combined", !.connected = c.ok,
                   !.query = q, !.size = size, !.from = from_,
                   !.search_type = search_type]} :
    /\ Connection(c)
    /\ EngineUnchanged
    /\ IF ~c.ok
       THEN last' = [op EXCEPT !.status = 503, !.raised = TRUE]
       ELSE IF search_type = "title"
       THEN \E r \in {TitleSearch(q, size, from_, title_fault, shape)} :
            last' = [op EXCEPT !.status = 200, !.ok = TRUE,
                        !.total = r.total, !.products = r.products,
                        !.calls = r.calls,
                        !.request = IF r.calls = <<>> THEN NoOp.request
                                    ELSE FullQuery(size, from_)]
       ELSE IF search_type = "attributes"
       THEN \E r \in {AttrSearch(q, size, from_, attr_fault, shape)} :
            last' = [op EXCEPT !.status = 200, !.ok = TRUE,
                        !.total = r.total, !.products = r.products,
                        !.calls = r.calls,
                        !.request = IF r.calls = <<>> THEN NoOp.request
                                    ELSE FullQuery(size, from_)]
       ELSE \E title_result \in
                {TitleSearch(q, size \div 2, from_ \div 2, title_fault, shape)} :
            \E attr_result \in
                {AttrSearch(q, size \div 2, from_ \div 2, attr_fault, shape)} :
            last' = [op EXCEPT !.status = 200, !.ok = TRUE,
                        !.total = title_result.total + attr_result.total,
                        !.products = Merge(title_result.products,
                                           attr_result.products, size),
                        !.title_products = title_result.products,
                        !.attr_products = attr_result.products,
                        !.calls = title_result.calls \o attr_result.calls,
                        !.request =
                            IF title_result.calls = <<>> THEN NoOp.request
                            ELSE FullQuery(size \div 2, from_ \div 2)]

-----------------------------------------------------------------------------
(* Inputs *)

Doc(idKind, title, attrKind, extraKind) ==
    Dict(IdShape(idKind) \o <<KV("title", title)>>
         \o AttrShape(attrKind) \o ExtraShape(extraKind))

\* a batch of n documents; those at the positions in unprepared fail
\* preparation (no mapping at position 1, an unhashable name elsewhere)
Batch(n, unprepared) ==
    [i \in 1..n |->
        IF i \in unprepared
        THEN IF i = 1 THEN None
             ELSE Dict(AttrShape("unhashable"))
        ELSE Dict(IdShape("str"))]

Outcomes == {"bulk", "throw", "unexpected"}

Word(w) == [word |-> w, pad |-> FALSE]

Padded(w) == [word |-> w, pad |-> TRUE]

-----------------------------------------------------------------------------
(* The service: every operation, on small inputs *)

Init ==
    /\ es = "none"
    /\ engineUp \in BOOLEAN
    /\ connection_attempts = 0
    /\ exists = FALSE
    /\ index = <<>>
    /\ autoIds = 0
    /\ last = NoOp

SmallDocs == {Doc("str", Str("lamp", 4), "one", "none"), None}

SmallIds == {"", "1", "9"}

CreateIndex ==
    \E fault \in {"none", "exists", "delete", "create"} : create_index(fault)

AddProduct ==
    \E d \in SmallDocs : \E fault \in BOOLEAN : add_product(d, fault)

BulkAddProducts ==
    \E n \in 0..1 : \E unprepared \in SUBSET (1..n) :
        \E outcome \in Outcomes : \E bad \in SUBSET (1..n) :
            bulk_add_products(Batch(n, unprepared), outcome, bad)

SearchByTitle ==
    \E q \in {Padded("lamp"), Padded(""), Word("")} : \E fault \in BOOLEAN :
        \E shape \in TotalShapes :
            search_products_by_title(q, 2, 0, fault, shape)

SearchByAttributesText ==
    \E q \in {Padded("black"), Padded(""), Word("")} : \E fault \in BOOLEAN :
        \E shape \in TotalShapes :
            search_products_by_attributes_text(q, 2, 0, fault, shape)

SearchByAttributes ==
    \E attributes \in {Dict(<<>>), Dict(<<KV("color", Str("black", 5))>>)} :
        \E exact_match \in BOOLEAN : \E fault \in BOOLEAN :
            \E shape \in TotalShapes :
                search_by_attributes(attributes, 2, exact_match, fault, shape)

GetProductById ==
    \E id \in SmallIds : \E fault \in BOOLEAN : get_product_by_id(id, fault)

DeleteProduct ==
    \E id \in SmallIds : \E fault \in BOOLEAN : delete_product(id, fault)

UpdateProduct ==
    \E id \in SmallIds : \E fault \in BOOLEAN :
        update_product(id, Dict(<<KV("title", Str("black", 5))>>), fault)

ClearIndex == \E fault \in BOOLEAN : clear_index(fault)

GetStats == \E fault \in {"none", "exists", "stats"} : get_stats(fault)

SearchCombined ==
    \E search_type \in {"title", "attributes", "both"} :
        \E shape \in TotalShapes :
            search_combined(Word("lamp"), search_type, 2, 0, FALSE, FALSE,
                            shape)

Next ==
    \/ Connect
    \/ EngineFails
    \/ EngineRecovers
    \/ CreateIndex
    \/ AddProduct
    \/ BulkAddProducts
    \/ SearchByTitle
    \/ SearchByAttributesText
    \/ SearchByAttributes
    \/ GetProductById
    \/ DeleteProduct
    \/ UpdateProduct
    \/ ClearIndex
    \/ GetStats
    \/ SearchCombined

Spec == Init /\ [][Next]_vars

-----------------------------------------------------------------------------
(* Batches: bulk_add_products on batches of up to MaxBatch documents *)

\* the batch lengths: the short ones and those around the sample of the
\* fallback
BatchLens == {n \in 0..MaxBatch : n <= 2 \/ n >= FallbackSample - 1}

\* the first and the last document of a batch may fail preparation, the
\* engine may refuse the first action and a late one
BulkAddBatch ==
    \E n \in BatchLens : \E unprepared \in {{}, {1}, {n}, {1, n}} :
        \E outcome \in Outcomes : \E bad \in {{}, {1}, {1, n - 2}} :
            bulk_add_products(Batch(n, unprepared), outcome, bad)

NextBulk ==
    \/ Connect
    \/ EngineFails
    \/ EngineRecovers
    \/ BulkAddBatch

SpecBulk == Init /\ [][NextBulk]_vars

-----------------------------------------------------------------------------
(* Storing and reading back: add_product and get_product_by_id on documents *)
(* with long texts, nested mappings and sequences                           *)

StoreDocs ==
    {Doc("str", Str("lamp", 4), "long", "longtext"),
     Doc("absent", Str("lamp", 4), "absent", "listed"),
     Doc("oid", Str("lamp", 4), "absent", "nested"),
     Doc("wrap", Str("lamp", 4), "one", "none")}

StoreProduct ==
    \E d \in StoreDocs : \E fault \in BOOLEAN : add_product(d, fault)

ReadProduct ==
    \E id \in {"", "1", "2", AutoId(1)} : \E fault \in BOOLEAN :
        get_product_by_id(id, fault)

NextStore ==
    \/ Connect
    \/ EngineFails
    \/ EngineRecovers
    \/ StoreProduct
    \/ ReadProduct

SpecStore == Init /\ [][NextStore]_vars

-----------------------------------------------------------------------------
(* Searching: ingestion followed by the three search modes *)

\* "black" is an attribute value of the first and the last document, the
\* title and an attribute value of the second; the first two share an id
SearchDocs ==
    {Doc("str", Str("lamp", 4), "one", "none"),
     Doc("wrap", Str("black", 5), "one", "none"),
     Doc("oid", Str("lamp", 4), "dup", "none")}

Queries == {Word("black"), Padded("lamp")}

IngestProduct == \E d \in SearchDocs : add_product(d, FALSE)

TitleMode ==
    \E q \in Queries : \E size \in 1..2 : \E from_ \in 0..1 :
        \E fault \in BOOLEAN :
            \E shape \in TotalShapes :
                search_products_by_title(q, size, from_, fault, shape)

AttributeMode ==
    \E q \in Queries : \E size \in 1..2 : \E from_ \in 0..1 :
        \E fault \in BOOLEAN :
            \E shape \in TotalShapes :
                search_products_by_attributes_text(q, size, from_, fault,
                                                   shape)

CombinedMode ==
    \E q \in Queries : \E search_type \in {"title", "attributes", "both"} :
        \E size \in {1, 2, 4} : \E from_ \in {0, 2} :
            \E faults \in {<<FALSE, FALSE>>, <<TRUE, FALSE>>,
                           <<FALSE, TRUE>>} :
                \E shape \in TotalShapes :
                    search_combined(q, search_type, size, from_,
                                    faults[1], faults[2], shape)

NextSearch ==
    \/ Connect
    \/ EngineFails
    \/ EngineRecovers
    \/ IngestProduct
    \/ TitleMode
    \/ AttributeMode
    \/ CombinedMode

SpecSearch == Init /\ [][NextSearch]_vars

-----------------------------------------------------------------------------
(* The normalizer as a specification of its own: Init draws a raw document, *)
(* Normalize applies _extract_document_id and _prepare_product_data to it.  *)

RawDoc(idKind, attrKind, extraKind) == 
    Doc(idKind, Str("lamp", 4), attrKind, extraKind)

\* what a caller may hand over instead of a mapping
NonDocs == {None, Str("lamp", 4)}

RawDocs ==
    {RawDoc(i, a, x) : i \in IdKinds, a \in AttrKinds, x \in ExtraKinds}
    \cup NonDocs

InitNorm ==
    /\ es = "none"
    /\ engineUp = FALSE
    /\ connection_attempts = 0
    /\ exists = FALSE
    /\ index = <<>>
    /\ autoIds = 0
    /\ \E d \in RawDocs : last = [NoOp EXCEPT !.op = "raw", !.doc = d]

Normalize ==
    /\ last.op = "raw"
    /\ last' = [last EXCEPT !.op = "prepare",
                            !.id = _extract_document_id(last.doc),
                            !.out = _prepare_product_data(last.doc),
                            !.after = AfterPrepare(last.doc)]
    /\ UNCHANGED <<es, engineUp, connection_attempts, exists, index, autoIds>>

NextNorm == Normalize

SpecNorm == InitNorm /\ [][NextNorm]_vars

-----------------------------------------------------------------------------
(* Claims about the normalizer *)

Prepared == last.op = "prepare" /\ last.out.t = "dict"

\* C6: for every raw document the id handed to the index, the result of
\* _extract_document_id, is a string.
C6_IdIsString ==
    (last.op = "prepare" /\ last.doc.t = "dict") => last.id.t = "str"

\* the attr_name of the pairs of a document's attributes that have a
\* non-empty name and a non-null value
PairNames(d) ==
    IF HasKey(d, "attributes") /\ Get(d, "attributes").t = "list"
    THEN {Get(e.v, "attr_name").a :
             e \in {Get(d, "attributes").kids[i] :
                       i \in 1..Len(Get(d, "attributes").kids)} \cap
                   {x \in {Get(d, "attributes").kids[i] :
                              i \in 1..Len(Get(d, "attributes").kids)} :
                       EntersFlat(x.v)}}
    ELSE {}

FlatKeys(d) ==
    IF HasKey(d, "flat_attributes") /\ Get(d, "flat_attributes").t = "dict"
    THEN Keys(Get(d, "flat_attributes"))
    ELSE {}

\* C7: in every output of _prepare_product_data the key set of
\* flat_attributes equals the set of names of the output's attribute pairs
\* that have a non-empty name and a non-null value.
C7_FlatKeysMatchPairs == Prepared => FlatKeys(last.out) = PairNames(last.out)


-----------------------------------------------------------------------------
(* Claims about batches *)

Bulk == last.op = "bulk_add_products"

\* C1: every call of bulk_add_products returns counts with
\* success + failed = total, and total is the number of input documents.
C1_CountsAddUp ==
    Bulk => /\ last.ret.success + last.ret.failed = last.ret.total
            /\ last.ret.total = last.given

\* C2: of a batch in which M documents fail preparation, bulk_add_products
\* returns failed >= M, on the bulk path and on the fallback path, for every
\* number of prepared actions.
C2_FailedCoversUnprepared == Bulk => last.ret.failed >= last.prepFailed

-----------------------------------------------------------------------------
(* Claims about the combined mode *)

Combined ==
    /\ last.op = "search_combined"
    /\ last.search_type = "both"
    /\ last.status = 200

\* C3: the product list of combined mode has at most size items, and no two
\* of them are the same document.
C3_CombinedBoundedDistinct ==
    Combined =>
        /\ Len(last.products) <= last.size
        /\ \A i, j \in 1..Len(last.products) :
               last.products[i].id = last.products[j].id => i = j

\* the items of rest, in order, appended to list when their document is not
\* in the list yet
RECURSIVE AppendNewDocuments(_, _)
AppendNewDocuments(list, rest) ==
    IF rest = <<>> THEN list
    ELSE IF \E i \in 1..Len(list) : list[i].id = Head(rest).id
    THEN AppendNewDocuments(list, Tail(rest))
    ELSE AppendNewDocuments(Append(list, Head(rest)), Tail(rest))

\* C4: the merged list of combined mode is the Title-mode items in their
\* order, then every Attribute-mode item whose document is not in the list
\* yet, in Attribute-mode order, cut to the first size items.
C4_MergedIsTitleThenUnseen ==
    Combined =>
        last.products =
            SubSeq(AppendNewDocuments(last.title_products, last.attr_products),
                   1, Min(last.size,
                          Len(AppendNewDocuments(last.title_products,
                                                 last.attr_products))))

-----------------------------------------------------------------------------
(* Claims about the search modes *)

\* the word is the text of the document's title, brand, description or
\* article
InTitleFields(src, word) ==
    \E f \in {"title", "brand", "description", "article"} :
        HasKey(src, f) /\ Get(src, f).t = "str" /\ Get(src, f).a = word

\* the word is the text of the attr_value of one of the document's
\* attribute pairs
InAttributeValues(src, word) ==
    /\ HasKey(src, "attributes")
    /\ \E i \in 1..Len(Get(src, "attributes").kids) :
          LET attr == Get(src, "attributes").kids[i].v IN
          HasKey(attr, "attr_value") /\ Get(attr, "attr_value").a = word

Stored(id) == index[Position(index, id)].src

ReturnedIds == {last.products[i].id : i \in 1..Len(last.products)}

MatchingIds(InFields(_, _)) ==
    {index[i].id : i \in {j \in 1..Len(index) :
                             InFields(index[j].src, Strip(last.query))}}

\* C5: Title mode matches a document only through its title, brand,
\* description or article, Attribute mode only through an attribute value:
\* each mode counts exactly the documents that carry the query in its fields
\* and returns only such documents, so a document that carries the query in
\* an attribute value alone is found by Attribute mode (and returned when
\* the page holds the whole index) and never by Title mode, and the other way
\* round.
C5_ModeSeparation ==
    /\ (last.op = "search_products_by_title" /\ last.ok) =>
           /\ ReturnedIds \subseteq MatchingIds(InTitleFields)
           /\ last.total = Cardinality(MatchingIds(InTitleFields))
           /\ \A i \in 1..Len(index) :
                  ~InTitleFields(index[i].src, Strip(last.query))
                      => index[i].id \notin ReturnedIds
    /\ (last.op = "search_products_by_attributes_text" /\ last.ok) =>
           /\ ReturnedIds \subseteq MatchingIds(InAttributeValues)
           /\ last.total = Cardinality(MatchingIds(InAttributeValues))
           /\ (last.from = 0 /\ last.size >= Len(index))
                  => MatchingIds(InAttributeValues) \subseteq ReturnedIds

\* a Title-mode search was answered over an index that holds a document with
\* the query in its title and another with the query in an attribute value
\* alone
C5_Witness ==
    /\ last.op = "search_products_by_title"
    /\ last.ok
    /\ ReturnedIds # {}
    /\ \E i \in 1..Len(index) :
           /\ InAttributeValues(index[i].src, Strip(last.query))
           /\ ~InTitleFields(index[i].src, Strip(last.query))

-----------------------------------------------------------------------------
(* Claims about storing and reading back *)

\* a string as the claim has it stored: its first 10,000 characters and the
\* truncation marker when it is longer, itself otherwise
ClaimedString(v) ==
    IF PyLen(v) > StrCap THEN [v EXCEPT !.n = StrCap, !.m = TRUE] ELSE v

\* every string field of the raw mapping, of its nested mappings and of the
\* mappings in its sequence fields is in the stored mapping as claimed; the
\* top-level _id is the document's id, not a field
RECURSIVE FieldsStored(_, _, _)
FieldsStored(raw, stored, top) ==
    /\ stored.t = "dict"
    /\ \A i \in 1..Len(raw.kids) :
          LET k == raw.kids[i].k
              v == raw.kids[i].v
          IN \/ top /\ k = "_id"
             \/ /\ HasKey(stored, k)
                /\ CASE v.t = "str" -> Get(stored, k) = ClaimedString(v)
                     [] v.t = "dict" -> FieldsStored(v, Get(stored, k), FALSE)
                     [] v.t = "list" ->
                            /\ Get(stored, k).t = "list"
                            /\ \A j \in 1..Len(v.kids) :
                                   v.kids[j].v.t = "dict" =>
                                       /\ j <= Len(Get(stored, k).kids)
                                       /\ FieldsStored(v.kids[j].v,
                                              Get(stored, k).kids[j].v, FALSE)
                     [] OTHER -> TRUE

\* C8: add_product stores every string field longer than 10,000 characters
\* as its first 10,000 characters and the marker and every other string
\* field unchanged, and get_product_by_id returns what is stored.
C8_StoredTruncated ==
    /\ (last.op = "add_product" /\ last.ok) =>
           FieldsStored(last.doc, Stored(last.key), TRUE)
    /\ (last.op = "get_product_by_id" /\ last.ok) =>
           last.out = Stored(last.key)

-----------------------------------------------------------------------------
(* Claims about connectivity *)

ServiceOps ==
    {"create_index", "add_product", "bulk_add_products",
     "search_products_by_title", "search_products_by_attributes_text",
     "search_by_attributes", "get_product_by_id", "delete_product",
     "clear_index", "get_stats", "update_product"}

\* the result of an operation that found the service unavailable: False,
\* None, a zero-hit result, all-failed counts, an error map; no engine call
Unavailable(l) ==
    /\ ~l.connected
    /\ ~l.ok
    /\ ~l.raised
    /\ l.calls = <<>>
    /\ l.out = None
    /\ l.products = <<>>
    /\ l.total = 0
    /\ l.ret = [success |-> 0, failed |-> l.given, total |-> l.given,
                accepted |-> {}]

NeedsEngine(l) ==
    CASE l.op \in {"add_product"} -> l.out.t = "dict"
      [] l.op = "bulk_add_products" ->
             l.given > l.prepFailed /\ l.path # "unexpected"
      [] l.op \in {"search_products_by_title",
                   "search_products_by_attributes_text"} -> ~Blank(l.query)
      [] l.op = "search_by_attributes" ->
             \E i \in 1..Len(l.doc.kids) : l.doc.kids[i].v.t # "null"
      [] l.op \in {"get_product_by_id", "delete_product"} -> l.key # ""
      [] l.op = "update_product" -> l.key # "" /\ l.out.t = "dict"
      [] OTHER -> TRUE

\* C10: when the handle is gone and the engine is reachable, the next service
\* operation connects by itself (one attempt, the handle kept) and goes on to
\* its engine call.
C10_ReconnectsTransparently ==
    [][(es = "none" /\ engineUp /\ engineUp' /\ last'.op \in ServiceOps)
          => /\ es' = "client"
             /\ connection_attempts' = connection_attempts + 1
             /\ last'.connected
             /\ NeedsEngine(last') => last'.calls # <<>>]_vars

\* a service operation made its engine call on a handle it got by itself
\* after a failed connect had cleared the handle
C10_Witness ==
    /\ last.op \in ServiceOps
    /\ last.connected
    /\ last.calls # <<>>
    /\ connection_attempts = MaxRetries + 1
    /\ es = "client"

-----------------------------------------------------------------------------
(* connect attempt by attempt: the engine may change between the attempts *)

ConnectAttempts ==
    \E retry \in BOOLEAN :
    \E outcomes \in [1..MaxRetries -> AttemptOutcomes] :
    \E c \in {connect_loop(outcomes, 1, IF retry THEN MaxRetries ELSE 1)} :
        /\ connection_attempts + c.attempts <= MaxAttempts
        /\ es' = c.es
        /\ connection_attempts' = connection_attempts + c.attempts
        /\ engineUp' = c.ok
        /\ EngineUnchanged
        /\ last' = [NoOp EXCEPT !.op = "connect", !.ok = c.ok,
                                !.connected = c.ok, !.retry = retry,
                                !.probes = outcomes,
                                !.attempts = c.attempts,
                                !.had = is_connected,
                                !.waits = connect_sleeps(outcomes, 1,
                                    IF retry THEN MaxRetries ELSE 1,
                                    8 * RetryDelay)]

NextConnect ==
    \/ ConnectAttempts
    \/ EngineFails
    \/ EngineRecovers

SpecConnect == Init /\ [][NextConnect]_vars

Answered(probes, upto) == {i \in 1..upto : probes[i] = "pong"}

\* C11: connect makes at most 5 attempts, exactly 1 without retry; it
\* returns True at the first attempt whose probe answers, with the handle
\* kept and no further attempt; when no attempt's probe answers it returns
\* False after all its attempts with the handle cleared, so that
\* is_connected() is false.
C11_ConnectFirstSuccessWins ==
    (last.op = "connect" /\ last.probes # <<>>) =>
        LET upto == IF last.retry THEN 5 ELSE 1
            answered == Answered(last.probes, upto)
        IN /\ last.attempts <= 5
           /\ ~last.retry => last.attempts = 1
           /\ answered # {} =>
                  /\ last.ok
                  /\ last.attempts \in answered
                  /\ \A i \in answered : last.attempts <= i
                  /\ es = "client"
           /\ answered = {} =>
                  /\ ~last.ok
                  /\ last.attempts = upto
                  /\ es = "none"
                  /\ ~is_connected

\* a connect called on a working handle used up its five attempts and left
\* the service without a handle
C11_Witness ==
    /\ last.op = "connect"
    /\ last.had
    /\ last.retry
    /\ ~last.ok
    /\ last.attempts = 5
    /\ \E i \in 1..5 : last.probes[i] = "silent"
    /\ es = "none"

-----------------------------------------------------------------------------
(* Claims about index management *)

\* a step of the operation: the environment's steps change engineUp and
\* leave last as it is
StepOf(op) == engineUp' = engineUp /\ last'.op = op

\* C12: whenever create_index returns True the index exists and holds no
\* document, whatever it held before, so two calls in succession give this
\* state both times; and the engine's create is called only on an absent
\* index (an existing one is deleted first), so that no call fails because
\* the index is already there.
C12_CreateIndexResets ==
    [][StepOf("create_index") =>
          /\ last'.ok => (exists' /\ index' = <<>>)
          /\ (\E i \in 1..Len(last'.calls) : last'.calls[i] = "create") =>
                 \/ ~exists
                 \/ \E i \in 1..Len(last'.calls) : last'.calls[i] = "delete"
          /\ (last.op = "create_index" /\ last.ok /\ last'.ok) =>
                 (exists /\ index = <<>> /\ exists' /\ index' = <<>>)]_vars

\* create_index returned True on an index that held a document
C12_Witness ==
    /\ last.op = "create_index"
    /\ last.ok
    /\ last.held > 0
    /\ exists
    /\ index = <<>>

\* the entries of the index under a key
Under(idx, key) == {i \in 1..Len(idx) : idx[i].id = key}

\* C13: add_product is an upsert by the document's id: after a successful
\* call the index holds exactly one document for the input, the prepared
\* input, and the documents under other ids are as before; and ingesting the
\* raw document that was just ingested leaves the index contents as they
\* were.
C13_AddProductUpserts ==
    [][(StepOf("add_product") /\ last'.ok) =>
          /\ Cardinality(Under(index', last'.key)) = 1
          /\ index'[Position(index', last'.key)].src =
                 _prepare_product_data(last'.doc)
          /\ \A i \in 1..Len(index) :
                 index[i].id # last'.key =>
                     \E j \in 1..Len(index') : index'[j] = index[i]
          /\ Len(index') <= Len(index) + 1
          /\ (last.op = "add_product" /\ last.ok /\ last.doc = last'.doc) =>
                 index' = index]_vars

-----------------------------------------------------------------------------
(* Claims about failures *)

HasCall(l, call) == \E i \in 1..Len(l.calls) : l.calls[i] = call

\* C14: whatever engine call raises, no exception leaves a service
\* operation; a write operation returns True only when the engine has done
\* the write, and one that returns False has left the documents as they
\* were; a batch that met an unexpected exception returns all-failed counts.
C14_NoExceptionEscapes ==
    [][(engineUp' = engineUp /\ last'.op \in ServiceOps) =>
          /\ ~last'.raised
          /\ (last'.op = "add_product" /\ last'.ok) =>
                 /\ Position(index', last'.key) # 0
                 /\ index'[Position(index', last'.key)].src = last'.out
          /\ (last'.op = "update_product" /\ last'.ok) =>
                 Position(index', last'.key) # 0
          /\ (last'.op = "delete_product" /\ last'.ok) =>
                 Position(index', last'.key) = 0
          /\ (last'.op \in {"clear_index", "create_index"} /\ last'.ok) =>
                 index' = <<>>
          /\ (last'.op \in {"add_product", "update_product",
                            "delete_product", "clear_index"} /\ ~last'.ok) =>
                 index' = index
          /\ (last'.op = "bulk_add_products"
                 /\ last'.path \in {"unexpected", "unprepared"}) =>
                 /\ last'.ret = AllFailed(last'.given)
                 /\ index' = index]_vars

\* the engine's index call raised under add_product, which returned False
C14_Witness ==
    /\ last.op = "add_product"
    /\ last.connected
    /\ last.out.t = "dict"
    /\ last.calls = <<"index">>
    /\ ~last.ok
    /\ ~last.raised

\* C15: get_product_by_id, update_product and delete_product on an id that
\* is not in the index return None, False and False without raising and
\* leave the index as it was (update_product creates no document), and an
\* empty id is turned down before any engine call.
C15_MissingIdReported ==
    [][(engineUp' = engineUp
          /\ last'.op \in {"get_product_by_id", "update_product",
                           "delete_product"}
          /\ Position(index, last'.key) = 0) =>
          /\ ~last'.ok
          /\ ~last'.raised
          /\ last'.op = "get_product_by_id" => last'.out = None
          /\ index' = index
          /\ exists' = exists
          /\ last'.key = "" => last'.calls = <<>>]_vars

\* update_product asked the engine for an id that the index, which holds a
\* document, does not hold
C15_Witness ==
    /\ last.op = "update_product"
    /\ last.connected
    /\ last.key = "9"
    /\ last.calls = <<"update">>
    /\ ~last.ok
    /\ index # <<>>
    /\ Position(index, "9") = 0

-----------------------------------------------------------------------------
(* Batches with a bad field or a bad document *)

\* a good document, one with a field whose handling raises, one that is no
\* mapping, one whose attributes cannot be flattened
MixedDocs ==
    {Dict(<<KV("_id", Str("1", 1)), KV("title", Str("lamp", 4))>>),
     Dict(<<KV("_id", Str("2", 1)), KV("note", Hostile),
            KV("title", Str("lamp", 4))>>),
     None,
     Dict(<<KV("_id", Str("3", 1))>> \o AttrShape("unhashable"))}

MaxMixed == 3

MixedBatches ==
    UNION {[1..n -> MixedDocs] : n \in 0..MaxMixed}

BulkAddMixed ==
    \E products \in MixedBatches : bulk_add_products(products, "bulk", {})

\* the engine stays as it is at the start
NextMixed == BulkAddMixed

SpecMixed == Init /\ [][NextMixed]_vars

\* the documents of a batch, and those of them that can be prepared
BatchOf(l) == [i \in 1..Len(l.doc.kids) |-> l.doc.kids[i].v]

Preparable(d) ==
    /\ _extract_document_id(d).t # "raise"
    /\ _prepare_product_data(d).t # "raise"

\* the fields of a raw document that can be handled
Sound(d) ==
    {d.kids[i].k : i \in {j \in 1..Len(d.kids) :
                             d.kids[j].k # "_id" /\
                             d.kids[j].v.t # "hostile"}}

\* C16: one bad field or one bad document does not abort a batch: the
\* actions bulk_add_products hands to the engine are those of the documents
\* that can be prepared, all of them and in the order of the batch; each
\* carries its document without the fields whose handling raised and with
\* every other field; the documents that cannot be prepared are counted as
\* failed.
C16_BatchSurvivesBadInput ==
    (Bulk /\ last.connected) =>
        LET good == SelectSeq(BatchOf(last), Preparable)
            actions == last.out.kids
        IN /\ Len(actions) = Len(good)
           /\ last.actions = IF HasCall(last, "bulk") THEN Len(good) ELSE 0
           /\ last.prepFailed = last.given - Len(good)
           /\ last.ret.failed = last.prepFailed
           /\ last.ret.success = Len(good)
           /\ good # <<>> => HasCall(last, "bulk")
           /\ \A k \in 1..Len(good) :
                  LET _source == Get(actions[k].v, "_source") IN
                  /\ Get(actions[k].v, "_id") = _extract_document_id(good[k])
                  /\ Sound(good[k]) \subseteq Keys(_source)
                  /\ \A i \in 1..Len(_source.kids) :
                         _source.kids[i].v.t # "hostile"
                  /\ \A f \in Keys(good[k]) \ Sound(good[k]) :
                         f \notin Keys(_source)

\* a batch with a document that is no mapping before, and a document with a
\* bad field after, a good document: two actions went to the engine
C16_Witness ==
    /\ Bulk
    /\ last.connected
    /\ last.given = 3
    /\ BatchOf(last)[1] = None
    /\ HasKey(BatchOf(last)[3], "note")
    /\ Len(last.out.kids) = 2
    /\ last.prepFailed = 1
    /\ last.path = "bulk"
    /\ Len(index) = 2

-----------------------------------------------------------------------------
(* Claims about the searches *)

\* C17: for an empty query and for one of white space only,
\* search_products_by_title and search_products_by_attributes_text return
\* total 0 and no product and send no search to the engine, whatever the
\* index holds.
C17_BlankQueryFailsClosed ==
    (last.op \in {"search_products_by_title",
                  "search_products_by_attributes_text"}
        /\ last.query.word = "") =>
        /\ last.total = 0
        /\ last.products = <<>>
        /\ last.calls = <<>>
        /\ ~last.raised

\* a query of white space went to a connected service with a document in
\* the index
C17_Witness ==
    /\ last.op = "search_products_by_attributes_text"
    /\ last.connected
    /\ last.query = Padded("")
    /\ index # <<>>

-----------------------------------------------------------------------------
(* Attribute pairs: ingestion followed by search_by_attributes *)

Pair(attr_name, attr_value) ==
    Dict(<<KV("attr_name", Str(attr_name, 5)),
           KV("attr_value", Str(attr_value, 5))>>)

\* the second document carries the name color on one pair and the value
\* black on another
PairDocs ==
    {Dict(<<KV("_id", Str("1", 1)),
            KV("attributes", List(<<Pair("color", "black")>>))>>),
     Dict(<<KV("_id", Str("2", 1)),
            KV("attributes", List(<<Pair("color", "white"),
                                    Pair("shade", "black")>>))>>),
     Dict(<<KV("_id", Str("3", 1)),
            KV("attributes", List(<<Pair("color", "black"),
                                    Pair("shade", "white")>>))>>)}

PairRequests ==
    {Dict(<<>>),
     Dict(<<KV("color", Str("black", 5))>>),
     Dict(<<KV("color", Str("black", 5)), KV("shade", Str("white", 5))>>),
     Dict(<<KV("color", None)>>),
     Dict(<<KV("color", None), KV("shade", Str("black", 5))>>)}

IngestPairs == \E d \in PairDocs : add_product(d, FALSE)

SearchPairs ==
    \E attributes \in PairRequests : \E size \in {1, 3} :
        \E exact_match \in BOOLEAN : \E fault \in BOOLEAN :
            \E shape \in TotalShapes :
                search_by_attributes(attributes, size, exact_match, fault,
                                     shape)

NextPairs ==
    \/ Connect
    \/ EngineFails
    \/ EngineRecovers
    \/ IngestPairs
    \/ SearchPairs

SpecPairs == Init /\ [][NextPairs]_vars

\* the requested pairs that have a value
Requested(l) ==
    {i \in 1..Len(l.doc.kids) : l.doc.kids[i].v.t # "null"}

\* one pair of the document has this name and this value
CarriesPair(src, attr_name, attr_value) ==
    /\ HasKey(src, "attributes")
    /\ \E j \in 1..Len(Get(src, "attributes").kids) :
          LET attr == Get(src, "attributes").kids[j].v IN
          /\ Get(attr, "attr_name") = Str(attr_name, Get(attr, "attr_name").n)
          /\ Get(attr, "attr_value") = attr_value

\* C18: search_by_attributes with exact_match returns a document only if,
\* for every requested pair with a value, one single pair of the document
\* has that name and that value; requested pairs with a null value are
\* passed over, and when none is left the result is empty and no search is
\* sent.
C18_ExactPairMatch ==
    last.op = "search_by_attributes" =>
        /\ last.search_type = "exact" =>
               \A p \in 1..Len(last.products) :
               \A i \in Requested(last) :
                   CarriesPair(last.products[p].src, last.doc.kids[i].k,
                               last.doc.kids[i].v)
        /\ Requested(last) = {} =>
               /\ last.products = <<>>
               /\ last.total = 0
               /\ last.calls = <<>>

\* an exact search for color = black returned a document while the index
\* held the document with color on one pair and black on another
C18_Witness ==
    /\ last.op = "search_by_attributes"
    /\ last.search_type = "exact"
    /\ last.doc = Dict(<<KV("color", Str("black", 5))>>)
    /\ last.products # <<>>
    /\ Position(index, "2") # 0
    /\ \A p \in 1..Len(last.products) : last.products[p].id # "2"

\* C19: every search the service sends to the engine asks for the order
\* by score descending, then by creation time descending, and carries the
\* caller's size and offset.
C19_SortAndPaging ==
    (last.op \in {"search_products_by_title",
                  "search_products_by_attributes_text",
                  "search_by_attributes"}
        /\ HasCall(last, "search")) =>
        /\ last.request.sort = <<"_score desc", "created_at desc">>
        /\ last.request.size = last.size
        /\ last.request.from = last.from

-----------------------------------------------------------------------------
(* ProductSearchEngine (elastic_search.py): the search over the same engine *)

\* ProductSearchEngine._build_search_query for criteria that hold at most a
\* text: match_all without conditions, else the multi_match over name and
\* description
_build_search_query(criteria) ==
    IF HasKey(criteria, "text")
    THEN [kind |-> "multi_match", fields |-> {"name", "description"},
          text |-> Get(criteria, "text").a]
    ELSE [kind |-> "match_all", fields |-> {}, text |-> ""]

\* response['hits']['total']['value']: subscripting a number raises
SubscriptValue(total) ==
    IF total.t = "dict" THEN [raised |-> FALSE, value |-> total.value]
    ELSE [raised |-> TRUE, value |-> 0]

\* ProductSearchEngine.search_products on the engine of its own client;
\* fault: the engine's search raises
ProductSearchEngine_search_products(search_criteria, size, from_, fault, shape) ==
    \E response \in
        {Search(_build_search_query(search_criteria), size, from_, shape)} :
    \E op \in {[NoOp EXCEPT !.op = "ProductSearchEngine.search_products",
                   !.doc = search_criteria, !.size = size, !.from = from_,
                   !.calls = <<"search">>,
                   !.request = [keys |-> {"query", "size", "from", "sort"},
                                sort |-> <<"_score desc", "updated_at desc">>,
                                size |-> size, from |-> from_]]} :
    /\ UNCHANGED <<es, engineUp, connection_attempts>>
    /\ EngineUnchanged
    /\ IF fault \/ ~engineUp \/ ~exists
       THEN last' = op
       ELSE IF SubscriptValue(response.total).raised
       THEN last' = [op EXCEPT !.shape = shape]
       ELSE last' = [op EXCEPT !.shape = shape, !.ok = TRUE,
                        !.total = SubscriptValue(response.total).value,
                        !.products = response.hits]

Criteria == {Dict(<<>>), Dict(<<KV("text", Str("lamp", 4))>>)}

EngineSearch ==
    \E search_criteria \in Criteria : \E size \in 1..2 : \E from_ \in 0..1 :
        \E fault \in BOOLEAN : \E shape \in TotalShapes :
            ProductSearchEngine_search_products(search_criteria, size, from_,
                                                fault, shape)

TitleTotals ==
    \E q \in Queries : \E shape \in TotalShapes :
        search_products_by_title(q, 2, 0, FALSE, shape)

AttributeTotals ==
    \E q \in Queries : \E shape \in TotalShapes :
        search_products_by_attributes_text(q, 2, 0, FALSE, shape)

PairTotals ==
    \E exact_match \in BOOLEAN : \E shape \in TotalShapes :
        search_by_attributes(Dict(<<KV("color", Str("black", 5))>>), 2,
                             exact_match, FALSE, shape)

NextTotals ==
    \/ Connect
    \/ EngineFails
    \/ EngineRecovers
    \/ IngestProduct
    \/ TitleTotals
    \/ AttributeTotals
    \/ PairTotals
    \/ EngineSearch

SpecTotals == Init /\ [][NextTotals]_vars

\* the hits the engine's response carried for the last search: the documents
\* of the index that the query of the operation matches
Hit(src) ==
    CASE last.op = "search_products_by_title" ->
             QueryMatch(TitleQuery(last.query), src)
      [] last.op = "search_products_by_attributes_text" ->
             QueryMatch(AttrQuery(last.query), src)
      [] last.op = "search_by_attributes" ->
             PairsMatch(src, last.doc.kids, last.search_type = "exact")
      [] OTHER -> QueryMatch(_build_search_query(last.doc), src)

HitCount == Len(SelectSeq(index, LAMBDA e : Hit(e.src)))

\* C20: a search whose response the engine gave with n hits in total, as a
\* bare number or as {value: n}, returns total = n with the hits of that
\* response, for the service and for ProductSearchEngine alike.
C20_TotalNormalized ==
    (last.shape # "") =>
        /\ last.ok
        /\ last.total = HitCount
        /\ Len(last.products) =
               IF HitCount <= last.from THEN 0
               ELSE Min(last.size, HitCount - last.from)

-----------------------------------------------------------------------------
(* Updates of the attributes of stored documents *)

\* updates that replace the attributes: by an empty list, by a list without
\* the name color, by a list with the name color; and one that leaves them
AttributeUpdates ==
    {Dict(<<KV("attributes", List(<<>>))>>),
     Dict(<<KV("attributes", List(<<Pair("shade", "white")>>))>>),
     Dict(<<KV("attributes", List(<<Pair("color", "white")>>))>>),
     Dict(<<KV("title", Str("lamp", 4))>>)}

BulkAddPairs ==
    \E d \in PairDocs : bulk_add_products(<<d>>, "bulk", {})

UpdateAttributes ==
    \E id \in {"1", "9"} : \E update_data \in AttributeUpdates :
        \E fault \in BOOLEAN : update_product(id, update_data, fault)

NextFlat ==
    \/ Connect
    \/ IngestPairs
    \/ BulkAddPairs
    \/ UpdateAttributes

SpecFlat == Init /\ [][NextFlat]_vars

\* C21: every document stored in the index has a flat_attributes entry for
\* each attribute pair with a non-empty name and a non-null value, and a
\* pair of that kind for each flat_attributes entry, also after an
\* update_product that replaces the attributes.
C21_FlatFollowsAttributes ==
    \A i \in 1..Len(index) :
        FlatKeys(index[i].src) = PairNames(index[i].src)

-----------------------------------------------------------------------------
(* Claims about the fallback of a batch *)

Fallback == Bulk /\ last.path = "throw"

\* the number of actions the fallback submits: the first 10 at most
Tried == Min(10, last.actions)

\* C22: when the bulk submission throws, the fallback submits the first
\* min(10, A) of the A prepared actions one at a time, each once; success is
\* the number of submissions the engine accepted, failed is the number of
\* preparation failures plus the submissions that raised plus the A -
\* min(10, A) actions that were not tried.
C22_FallbackCounts ==
    Fallback =>
        /\ last.calls = <<"bulk">> \o [i \in 1..Tried |-> "index"]
        /\ last.ret.accepted \subseteq 1..Tried
        /\ last.ret.success = Cardinality(last.ret.accepted)
        /\ last.ret.failed =
               last.prepFailed + (Tried - Cardinality(last.ret.accepted))
                   + (last.actions - Tried)

-----------------------------------------------------------------------------
(* The data endpoints (api/v1/endpoints/data.py) *)

\* bulk_load_products: 503 without a handle, 400 for an empty list, else the
\* service's bulk_add_products
bulk_load_products(products, outcome, bad) ==
    IF es = "none" \/ products = <<>>
    THEN /\ last' = [NoOp EXCEPT !.op = "bulk_load_products",
                        !.given = Len(products), !.raised = TRUE,
                        !.status = IF es = "none" THEN 503 ELSE 400]
         /\ UNCHANGED <<es, engineUp, connection_attempts>>
         /\ EngineUnchanged
    ELSE bulk_add_products(products, outcome, bad)

\* clear_elasticsearch_index: 503 without a handle; else indices.exists and
\* indices.delete on the handle, then the service's create_index (whose
\* connectivity check and calls follow); fault: the first call raises.
\* connected: a connectivity check succeeded before the first engine call
clear_elasticsearch_index(fault) ==
    \E op \in {[NoOp EXCEPT !.op = "clear_elasticsearch_index",
                            !.held = Len(index)]} :
    /\ UNCHANGED <<es, engineUp, connection_attempts, autoIds>>
    /\ IF es = "none"
       THEN /\ last' = [op EXCEPT !.status = 503, !.raised = TRUE]
            /\ UNCHANGED <<exists, index>>
       ELSE IF fault \/ ~engineUp
       THEN /\ last' = [op EXCEPT !.status = 500, !.raised = TRUE,
                                  !.calls = <<"exists">>]
            /\ UNCHANGED <<exists, index>>
       ELSE /\ last' = [op EXCEPT !.status = 200, !.ok = TRUE,
                           !.calls = (IF exists THEN <<"exists", "delete">>
                                      ELSE <<"exists">>)
                                     \o <<"exists", "create">>]
            /\ exists' = TRUE
            /\ index' = <<>>

BulkLoadProducts ==
    \E n \in 0..1 : \E outcome \in Outcomes :
        bulk_load_products(Batch(n, {}), outcome, {})

ClearElasticsearchIndex ==
    \E fault \in BOOLEAN : clear_elasticsearch_index(fault)

NextEndpoints ==
    \/ Next
    \/ BulkLoadProducts
    \/ ClearElasticsearchIndex

SpecEndpoints == Init /\ [][NextEndpoints]_vars

\* C23: every call to the engine is preceded, within the same operation, by
\* a connectivity check that succeeded, in the service methods and in the
\* endpoints that use the handle directly.
C23_CallsFollowCheck == last.calls # <<>> => last.connected

-----------------------------------------------------------------------------
(* Claims about the lengths and the ids in a normalized document *)

\* the values of flat_attributes of a document
FlatValues(d) ==
    IF HasKey(d, "flat_attributes") /\ Get(d, "flat_attributes").t = "dict"
    THEN {Get(d, "flat_attributes").kids[i].v :
             i \in 1..Len(Get(d, "flat_attributes").kids)}
    ELSE {}

\* the attr_value of the pairs of attributes of a document
PairValues(d) ==
    IF HasKey(d, "attributes") /\ Get(d, "attributes").t = "list"
    THEN {Get(Get(d, "attributes").kids[i].v, "attr_value") :
             i \in {j \in 1..Len(Get(d, "attributes").kids) :
                       /\ Get(d, "attributes").kids[j].v.t = "dict"
                       /\ HasKey(Get(d, "attributes").kids[j].v,
                                 "attr_value")}}
    ELSE {}

\* a string of at most 1,000 characters, or one cut to 1,000 with the marker
AttrBounded(v) == v.t = "str" => (PyLen(v) <= 1000 \/ (v.m /\ v.n <= 1000))

\* C24: in every normalized document each value of flat_attributes and the
\* attr_value of each pair of attributes has at most 1,000 characters plus
\* the truncation marker, and a value of at most 1,000 characters is kept
\* as it was.
C24_AttributeValuesCapped ==
    Prepared =>
        /\ \A v \in FlatValues(last.out) \cup PairValues(last.out) :
               AttrBounded(v)
        /\ \A v \in PairValues(last.doc) :
               (v.t = "str" /\ PyLen(v) <= 1000) => v \in PairValues(last.out)

\* the value holds an ObjectId at some depth
RECURSIVE ContainsOid(_)
ContainsOid(v) ==
    \/ v.t = "oid"
    \/ /\ v.t \in {"dict", "list"}
       /\ \E i \in 1..Len(v.kids) : ContainsOid(v.kids[i].v)

\* every ObjectId of raw is in out as its string form at the same position:
\* under the same key of a mapping, at the same place of a sequence
RECURSIVE OidsConverted(_, _)
OidsConverted(raw, out) ==
    CASE raw.t = "oid" -> out = PyStr(raw)
      [] raw.t = "dict" ->
             /\ out.t = "dict"
             /\ \A i \in 1..Len(raw.kids) :
                   ContainsOid(raw.kids[i].v) =>
                       /\ HasKey(out, raw.kids[i].k)
                       /\ OidsConverted(raw.kids[i].v,
                                        Get(out, raw.kids[i].k))
      [] raw.t = "list" ->
             /\ out.t = "list"
             /\ \A i \in 1..Len(raw.kids) :
                   ContainsOid(raw.kids[i].v) =>
                       /\ i <= Len(out.kids)
                       /\ OidsConverted(raw.kids[i].v, out.kids[i].v)
      [] OTHER -> TRUE

\* the raw document without its top-level _id
Body(d) == [d EXCEPT !.kids = SelectSeq(d.kids, LAMBDA e : e.k # "_id")]

\* C25: the output of _prepare_product_data holds no ObjectId at any depth,
\* and every ObjectId of the input other than the top-level document id,
\* under any key of a nested mapping (a nested _id included) or in a
\* sequence, is in the output as its string form at the same position.
C25_ObjectIdsBecomeStrings ==
    Prepared =>
        /\ ~ContainsOid(last.out)
        /\ OidsConverted(Body(last.doc), last.out)

-----------------------------------------------------------------------------
(* The caller's documents across preparation and ingestion *)

\* a call of _prepare_product_data on a document
prepare(product_data) ==
    /\ last' = [NoOp EXCEPT !.op = "prepare", !.doc = product_data,
                            !.id = _extract_document_id(product_data),
                            !.out = _prepare_product_data(product_data),
                            !.after = AfterPrepare(product_data)]
    /\ UNCHANGED <<es, engineUp, connection_attempts>>
    /\ EngineUnchanged

\* documents with an ObjectId, pairs, nested mappings and sequences, long
\* texts; one that is not a mapping
FrameDocs ==
    {Doc("oid", Str("lamp", 4), "one", "nested"),
     Doc("str", Str("lamp", 4), "long", "listed"),
     None}

PrepareDocument == \E d \in FrameDocs : prepare(d)

AddFrameDoc == \E d \in FrameDocs : \E fault \in BOOLEAN : add_product(d, fault)

BulkAddFrameDocs ==
    \E d \in FrameDocs : \E outcome \in Outcomes : \E bad \in {{}, {1}} :
        bulk_add_products(<<d, None>>, outcome, bad)

NextFrame ==
    \/ Connect
    \/ EngineFails
    \/ PrepareDocument
    \/ AddFrameDoc
    \/ BulkAddFrameDocs

SpecFrame == Init /\ [][NextFrame]_vars

-----------------------------------------------------------------------------
(* Claims about the waits of connect *)

\* C27: connect waits only between a failed attempt and the next one, not
\* before the first attempt and not after the last; the waits are 2, 3, 4.5
\* and 6.75 (each 1.5 times the one before), they never decrease and none
\* exceeds 10; connect ends after at most 4 waits and 5 attempts, and
\* connection_attempts grows by the number of attempts made.
C27_BackoffBetweenAttempts ==
    [][(connection_attempts' # connection_attempts
           /\ last'.op = "connect" /\ last'.probes # <<>>) =>
          /\ Len(last'.waits) = last'.attempts - 1
          /\ last'.attempts <= 5
          /\ Len(last'.waits) <= 4
          /\ last'.waits = SubSeq(<<16, 24, 36, 54>>, 1, Len(last'.waits))
          /\ \A i \in 1..Len(last'.waits) :
                /\ last'.waits[i] <= 80
                /\ i > 1 => last'.waits[i - 1] <= last'.waits[i]
          /\ connection_attempts' =
                 connection_attempts + last'.attempts]_vars

\* a connect that failed four times, waited four times and succeeded at
\* its fifth attempt
C27_Witness ==
    /\ last.op = "connect"
    /\ last.ok
    /\ last.attempts = 5
    /\ last.waits = <<16, 24, 36, 54>>

-----------------------------------------------------------------------------
(* Batches whose bulk submission writes before it raises *)

\* batches of one chunk, and of one chunk and one action more; the bulk
\* helper of the longer one may raise after its first chunk was written
BulkAddChunks ==
    \E n \in {1, FallbackSample + 1, ChunkSize + 1} :
        \E outcome \in {"bulk", "throw", "partial"} : \E bad \in {{}, {1}} :
            /\ outcome = "partial" => n > ChunkSize
            /\ bulk_add_products(Batch(n, {}), outcome, bad)

NextChunks ==
    \/ Connect
    \/ EngineFails
    \/ EngineRecovers
    \/ BulkAddChunks

SpecChunks == Init /\ [][NextChunks]_vars

\* C28: the success count bulk_add_products returns is the number of actions
\* of the batch that the engine accepted during the call, and no document
\* counted as failed was written by the call, whatever the engine does,
\* a bulk submission that writes a chunk and then raises included.
C28_SuccessCountsWrites ==
    Bulk =>
        /\ last.ret.success = Cardinality(last.ret.accepted)
        /\ last.ret.failed + Cardinality(last.ret.accepted) <= last.given

-----------------------------------------------------------------------------
(* Paging through the combined search *)

\* the pages a caller walks through: the sizes, and the pages per size
MaxPages == 3

PageSizes == {1, 2, 3, 4, 99, 100}

CombinedPage ==
    \E q \in Queries : \E size \in PageSizes : \E page \in 0..MaxPages :
        \E shape \in TotalShapes :
            search_combined(q, "both", size, page * size, FALSE, FALSE, shape)

NextPaging ==
    \/ Connect
    \/ IngestProduct
    \/ CombinedPage

SpecPaging == Init /\ [][NextPaging]_vars

\* a page of the combined search that sent its two searches
Page(l) ==
    /\ l.op = "search_combined"
    /\ l.search_type = "both"
    /\ l.request.sort # <<>>

\* C29: paging through the mode both with a fixed size s >= 1 and the
\* offsets 0, s, 2s, ... asks each sub-mode for consecutive windows of its
\* ranking, without overlap and without gap, so that every hit falls in the
\* window of exactly one page; for every s, the odd ones and 1 included.
C29_PagesTileRanking ==
    [][(Page(last') /\ last'.from = 0 => last'.request.from = 0)
       /\ ((Page(last) /\ Page(last') /\ last'.query = last.query
              /\ last'.size = last.size
              /\ last'.from = last.from + last.size) =>
             /\ last'.request.size >= 1
             /\ last'.request.from =
                    last.request.from + last.request.size)]_vars

-----------------------------------------------------------------------------
(* Claims about the lengths of the strings of a normalized document *)

\* every string in the value, at any depth, has at most 10,000 characters
\* plus the truncation marker
RECURSIVE StringsCapped(_)
StringsCapped(v) ==
    CASE v.t = "str" -> PyLen(v) <= 10000 + 3
      [] v.t \in {"dict", "list"} ->
             \A i \in 1..Len(v.kids) : StringsCapped(v.kids[i].v)
      [] OTHER -> TRUE

\* C30: in every output of _prepare_product_data every string, at any depth,
\* as the value of a key or as an element of a sequence, in a mapping, in a
\* mapping inside a sequence or in a sequence inside a sequence, has at most
\* 10,000 characters plus the truncation marker.
C30_EveryStringCapped == Prepared => StringsCapped(last.out)

=============================================================================
